---------------------------- MODULE Spec2Model ----------------------------
(***************************************************************************)
(* Lead intake and eligibility screening (hey-trial-TBI).                  *)
(*                                                                         *)
(* The model covers the form orchestrator                                  *)
(* (main.process_qualification_submission_from_form), the verification     *)
(* endpoint (app.verify_code), the chatbot (main.handle_input) and the     *)
(* module-level session dictionary they share (main.sessions).             *)
(*                                                                         *)
(* Text typed by a user is a sequence of one-character strings, so that    *)
(* strip(), lower(), the regular expressions and strptime() are computed   *)
(* and not assumed.  Messages, group ids and tags, which the code only     *)
(* compares and passes on, are TLA+ strings.  A message is the source's    *)
(* text in ASCII: a pictograph (with the blank after it) is                *)
(* left out, a typographic apostrophe and a backquote are written '.       *)
(*                                                                         *)
(* A submission is one call of process_qualification_submission_from_form  *)
(* with the two parameters of its definition (main.py 444), form_data and  *)
(* ip_address.  The route POST /qualify_form (app.py 166-198) is not an    *)
(* action of the model: it passes three arguments (app.py 177), the call   *)
(* raises TypeError before the function's first line, and the handler of   *)
(* that exception calls quote(), which app.py does not import, so the      *)
(* route writes nothing to the store and returns no outcome.               *)
(*                                                                         *)
(* verify_code is an `async def` without an await (app.py 202) and the     *)
(* functions of main.py are synchronous, so a call runs to completion      *)
(* before the next one starts: one action is one whole call.               *)
(***************************************************************************)
EXTENDS Integers, Sequences, FiniteSets, TLC

---------------------------------------------------------------------------
(* Characters and Python's str helpers                                     *)

Digits == {"0", "1", "2", "3", "4", "5", "6", "7", "8", "9"}

UpperSeq == <<"A", "B", "C", "D", "E", "F", "G", "H", "I", "J", "K", "L", "M",
              "N", "O", "P", "Q", "R", "S", "T", "U", "V", "W", "X", "Y", "Z">>

LowerSeq == <<"a", "b", "c", "d", "e", "f", "g", "h", "i", "j", "k", "l", "m",
              "n", "o", "p", "q", "r", "s", "t", "u", "v", "w", "x", "y", "z">>

UpperLetters == {UpperSeq[i] : i \in DOMAIN UpperSeq}

LowerLetters == {LowerSeq[i] : i \in DOMAIN LowerSeq}

Letters == UpperLetters \cup LowerLetters

\* The upper-case letters of U+00C0 to U+00DE (all but the multiplication
\* sign U+00D7) and, at the same positions, what str.lower() makes of them.
UpperLatin1 == <<"À", "Á", "Â", "Ã", "Ä", "Å", "Æ", "Ç", "È", "É", "Ê", "Ë", "Ì",
                 "Í", "Î", "Ï", "Ð", "Ñ", "Ò", "Ó", "Ô", "Õ", "Ö", "Ø", "Ù", "Ú",
                 "Û", "Ü", "Ý", "Þ">>

LowerLatin1 == <<"à", "á", "â", "ã", "ä", "å", "æ", "ç", "è", "é", "ê", "ë", "ì",
                 "í", "î", "ï", "ð", "ñ", "ò", "ó", "ô", "õ", "ö", "ø", "ù", "ú",
                 "û", "ü", "ý", "þ">>

\* The characters up to U+00FF that str.strip() removes: space, tab, line
\* feed, vertical tab, form feed, carriage return, the separators 0x1c to
\* 0x1f, next line (U+0085) and no-break space (U+00A0).
Whitespace == {" ", "\t", "\n", "", "\f", "\r", "", "", "", "",
               "", " "}

\* The absent value: dict.get(key) of a missing key.
None == <<"<None>">>

\* bool(value) of a str or None.
Truthy(s) == s # None /\ s # <<>>

\* str.lower() on one character.
LowerChar(c) ==
    IF c \in UpperLetters
    THEN LowerSeq[CHOOSE i \in DOMAIN UpperSeq : UpperSeq[i] = c]
    ELSE IF \E i \in DOMAIN UpperLatin1 : UpperLatin1[i] = c
    THEN LowerLatin1[CHOOSE i \in DOMAIN UpperLatin1 : UpperLatin1[i] = c]
    ELSE c

\* str.lower()
Lower(s) == [i \in DOMAIN s |-> LowerChar(s[i])]

\* str.strip(): drop leading and trailing whitespace.
Strip(s) ==
    LET keep == {i \in DOMAIN s : s[i] \notin Whitespace}
    IN  IF keep = {} THEN <<>>
        ELSE LET lo == CHOOSE i \in keep : \A j \in keep : i <= j
                 hi == CHOOSE i \in keep : \A j \in keep : j <= i
             IN  SubSeq(s, lo, hi)

\* `needle in s` for str operands.
Contains(s, needle) ==
    \E i \in 0..(Len(s) - Len(needle)) :
        SubSeq(s, i + 1, i + Len(needle)) = needle

\* str(value): the text of None is "None".
Str(v) == IF v = None THEN <<"N", "o", "n", "e">> ELSE v

\* re.sub(r"[^\d]", "", s): the digits of s, in order.
OnlyDigits(s) == SelectSeq(s, LAMBDA c : c \in Digits)

\* int() of a string of digits.
RECURSIVE ToInt(_)
ToInt(s) ==
    IF s = <<>> THEN 0
    ELSE 10 * ToInt(SubSeq(s, 1, Len(s) - 1))
         + (CHOOSE n \in 0..9 : <<"0", "1", "2", "3", "4", "5", "6", "7", "8", "9">>[n + 1] = s[Len(s)])

\* dict.get(key, default)
Get(d, k, default) == IF k \in DOMAIN d THEN d[k] ELSE default

\* d with d[k] = v (a new key is added).
Put(d, k, v) == [x \in DOMAIN d \cup {k} |-> IF x = k THEN v ELSE d[x]]

\* del d[k]
Del(d, k) == [x \in DOMAIN d \ {k} |-> d[x]]

\* Literals the code compares against.
Yes == <<"Y", "e", "s">>

No == <<"N", "o">>

LeftHanded == <<"L", "e", "f", "t", "-", "h", "a", "n", "d", "e", "d">>

RightHanded == <<"R", "i", "g", "h", "t", "-", "h", "a", "n", "d", "e", "d">>

IConfirm == <<"I", ",", " ", "c", "o", "n", "f", "i", "r", "m">>

IDoNotConfirm == <<"I", ",", " ", "d", "o", " ", "n", "o", "t", " ", "c", "o", "n", "f", "i", "r", "m">>

---------------------------------------------------------------------------
(* main.normalize_fields                                                   *)

\* A variant that does not strip the value.
normalize_yes_no_NoStrip(value) ==
    LET val == Lower(Str(value))
    IN  IF val \in {<<"y", "e", "s">>, <<"y">>} THEN Yes
        ELSE IF val \in {<<"n", "o">>, <<"n">>} THEN No
        ELSE value

normalize_yes_no(value) ==
    LET val == Lower(Strip(Str(value)))
    IN  IF val \in {<<"y", "e", "s">>, <<"y">>} THEN Yes
        ELSE IF val \in {<<"n", "o">>, <<"n">>} THEN No
        ELSE value

normalize_handedness(value) ==
    LET val == Lower(Strip(Str(value)))
    IN  IF Contains(val, <<"l", "e", "f", "t">>) THEN LeftHanded
        ELSE IF Contains(val, <<"r", "i", "g", "h", "t">>) THEN RightHanded
        ELSE value

\* A variant that takes any value with an "n" in it for a refusal.
normalize_consent_LooseNo(value) ==
    LET val == Lower(Strip(Str(value)))
    IN  IF val = <<"y", "e", "s">> THEN IConfirm
        ELSE IF Contains(val, <<"n">>) THEN IDoNotConfirm
        ELSE value

normalize_consent(value) ==
    LET val == Lower(Strip(Str(value)))
    IN  IF val = <<"y", "e", "s">> THEN IConfirm
        ELSE IF val = <<"n", "o">> THEN IDoNotConfirm
        ELSE value

YesNoFields == {"tbi_year", "memory_issues", "english_fluent", "can_exercise", "can_mri"}

normalize_fields(data) ==
    [key \in DOMAIN data |->
        IF key \in YesNoFields THEN normalize_yes_no(data[key])
        ELSE IF key = "handedness" THEN normalize_handedness(data[key])
        ELSE IF key = "future_study_consent" THEN normalize_consent(data[key])
        ELSE data[key]]

---------------------------------------------------------------------------
(* twilio_sms.is_us_number, twilio_sms.format_us_number                    *)

is_us_number(number) ==
    LET cleaned == OnlyDigits(number)
    IN  \/ Len(cleaned) = 10
        \/ (Len(cleaned) = 11 /\ cleaned[1] = "1")

format_us_number(phone) ==
    LET digits == OnlyDigits(phone)
    IN  IF Len(digits) = 10 THEN <<"+", "1">> \o digits
        ELSE IF Len(digits) = 11 /\ digits[1] = "1" THEN <<"+">> \o digits
        ELSE phone

---------------------------------------------------------------------------
(* The email pattern of main.py,                                           *)
(*   ^[a-zA-Z0-9._%+-]+@[a-zA-Z0-9.-]+\.[a-zA-Z]{2,}$  under re.match      *)

EmailLocalChars == Letters \cup Digits \cup {".", "_", "%", "+", "-"}

EmailDomainChars == Letters \cup Digits \cup {".", "-"}

\* `$` also matches just before a final newline.
EmailEnds(s) == {Len(s)} \cup (IF Len(s) > 0 /\ s[Len(s)] = "\n" THEN {Len(s) - 1} ELSE {})

email_regex_match(s) ==
    \E n \in EmailEnds(s) :
        \E at \in 2..n : \E dot \in (at + 2)..(n - 2) :
            /\ s[at] = "@"
            /\ s[dot] = "."
            /\ \A i \in 1..(at - 1) : s[i] \in EmailLocalChars
            /\ \A i \in (at + 1)..(dot - 1) : s[i] \in EmailDomainChars
            /\ \A i \in (dot + 1)..n : s[i] \in Letters

---------------------------------------------------------------------------
(* datetime.strptime(dob, "%m/%d/%Y").date() and main.calculate_age        *)

IsLeap(y) == (y % 4 = 0 /\ y % 100 # 0) \/ y % 400 = 0

DaysInMonth(y, m) ==
    IF m = 2 THEN (IF IsLeap(y) THEN 29 ELSE 28)
    ELSE IF m \in {4, 6, 9, 11} THEN 30
    ELSE 31

\* %m: 1[0-2]|0[1-9]|[1-9]
MonthToken(t) ==
    /\ Len(t) \in {1, 2}
    /\ \A i \in DOMAIN t : t[i] \in Digits
    /\ ToInt(t) \in 1..12

\* %d: 3[0-1]|[1-2]\d|0[1-9]|[1-9]| [1-9]
DayToken(t) ==
    \/ /\ Len(t) \in {1, 2}
       /\ \A i \in DOMAIN t : t[i] \in Digits
       /\ ToInt(t) \in 1..31
    \/ /\ Len(t) = 2
       /\ t[1] = " "
       /\ t[2] \in Digits \ {"0"}

\* %Y: \d\d\d\d
YearToken(t) ==
    /\ Len(t) = 4
    /\ \A i \in DOMAIN t : t[i] \in Digits

\* What strptime gives when it raises ValueError.
NoDate == [year |-> 0, month |-> 0, day |-> 0]

\* The date a "%m/%d/%Y" string denotes, or NoDate when strptime raises
\* ValueError (no match, or a day the month does not have, or year 0).
strptime(dob) ==
    LET slashes == {i \in DOMAIN dob : dob[i] = "/"}
    IN  IF Cardinality(slashes) # 2 THEN NoDate
        ELSE LET s1 == CHOOSE i \in slashes : \A j \in slashes : i <= j
                 s2 == CHOOSE i \in slashes : \A j \in slashes : j <= i
                 mt == SubSeq(dob, 1, s1 - 1)
                 dt == SubSeq(dob, s1 + 1, s2 - 1)
                 yt == SubSeq(dob, s2 + 1, Len(dob))
             IN  IF ~(MonthToken(mt) /\ DayToken(dt) /\ YearToken(yt)) THEN NoDate
                 ELSE LET m == ToInt(mt)
                          d == ToInt(OnlyDigits(dt))
                          y == ToInt(yt)
                      IN  IF y >= 1 /\ d <= DaysInMonth(y, m)
                          THEN [year |-> y, month |-> m, day |-> d]
                          ELSE NoDate

\* A variant that compares the months only.
BeforeBirthday_MonthOnly(today, birth) == today.month < birth.month

\* (today.month, today.day) < (birth.month, birth.day)
BeforeBirthday(today, birth) ==
    \/ today.month < birth.month
    \/ (today.month = birth.month /\ today.day < birth.day)

MIN_AGE == 18

\* main.py 111: the text of the ValueError calculate_age raises.  For a date
\* that does not parse, the inner text is the one of strptime's own error,
\* which the library words.
MsgDobFormat == "Invalid date of birth or age: <strptime error>. Please use 'MM/DD/YYYY' and ensure you are 18 or older."

\* main.py 106, 111
MsgUnder18 == "Invalid date of birth or age: Age must be 18 years or older for these studies.. Please use 'MM/DD/YYYY' and ensure you are 18 or older."

\* The age, or raised = TRUE for the ValueError main.calculate_age re-raises
\* (unparseable date, or an age under 18).
calculate_age(dob, today) ==
    LET birth_date == strptime(dob)
    IN  IF birth_date = NoDate
        THEN [raised |-> TRUE, age |-> 0, error |-> MsgDobFormat]
        ELSE LET age == today.year - birth_date.year
                        - (IF BeforeBirthday(today, birth_date) THEN 1 ELSE 0)
             IN  IF age < MIN_AGE
                 THEN [raised |-> TRUE, age |-> age, error |-> MsgUnder18]
                 ELSE [raised |-> FALSE, age |-> age, error |-> ""]

---------------------------------------------------------------------------
(* Distance: main.haversine_distance, main.is_within_distance.             *)
(* Coordinates are in 1/10000 degree, distances in 1/1000 mile.            *)

KESSLER_COORDS == [latitude |-> 408255, longitude |-> -743594]

DISTANCE_THRESHOLD_MILES == 50

\* Geocoder answers the model draws from: Newark NJ, Philadelphia PA,
\* Boston MA, and a point on the equator (latitude 0.0).
Newark == [latitude |-> 407357, longitude |-> -741724]

Philadelphia == [latitude |-> 399526, longitude |-> -751652]

Boston == [latitude |-> 423601, longitude |-> -710589]

Equator == [latitude |-> 0, longitude |-> -743594]

\* The point of latitude 41.54914984592708 and longitude -74.3578, for which
\* main.haversine_distance to KESSLER_COORDS returns exactly 50.0; the
\* latitude is written with its first four decimals.
AtThreshold == [latitude |-> 415491, longitude |-> -743578]

\* The point (41.5492, -74.3578), 50.0034 miles from KESSLER_COORDS.
JustBeyond == [latitude |-> 415492, longitude |-> -743578]

\* configs/study_concord_stonybrook.py 8
CONCORD_COORDS == [latitude |-> 409142, longitude |-> -731250]

\* R * c of main.haversine_distance, evaluated with the source's formula
\* (R = 3958.8) for the points above against KESSLER_COORDS, and for some of
\* them against CONCORD_COORDS, rounded up to 1/1000 mile, so
\* that a distance compares with a whole number of miles as it does in the
\* source.
haversine_distance(lat1, lon1, lat2, lon2) ==
    LET from == [latitude |-> lat1, longitude |-> lon1]
        to == [latitude |-> lat2, longitude |-> lon2]
    IN  IF to = CONCORD_COORDS
        THEN CASE from = CONCORD_COORDS -> 0
               [] from = Newark -> 56134
               [] from = Philadelphia -> 126198
        ELSE CASE from = KESSLER_COORDS -> 0
               [] from = Newark -> 11586
               [] from = Philadelphia -> 73728
               [] from = Boston -> 200801
               [] from = Equator -> 2820801
               [] from = AtThreshold -> 50000
               [] from = JustBeyond -> 50004

\* A variant that compares with `<`.
is_within_distance_Strict(user_lat, user_lon) ==
    LET distance == haversine_distance(user_lat, user_lon,
                                       KESSLER_COORDS.latitude, KESSLER_COORDS.longitude)
    IN  distance < DISTANCE_THRESHOLD_MILES * 1000

is_within_distance(user_lat, user_lon) ==
    LET distance == haversine_distance(user_lat, user_lon,
                                       KESSLER_COORDS.latitude, KESSLER_COORDS.longitude)
    IN  distance <= DISTANCE_THRESHOLD_MILES * 1000

\* The empty dict main.get_coords_from_city_state returns on no result.
NoCoords == <<>>

\* `not coords or not coords.get("latitude") or not coords.get("longitude")`
CoordsUnusable(coords) ==
    \/ DOMAIN coords = {}
    \/ Get(coords, "latitude", 0) = 0
    \/ Get(coords, "longitude", 0) = 0

---------------------------------------------------------------------------
(* push_to_monday.push_to_monday                                           *)

\* Positional parameters of push_to_monday(data, group_id, qualified, tags,
\* ipinfo_text, board_id, monday_column_mappings, dropdown_allowed_tags);
\* none has a default.
PUSH_TO_MONDAY_PARAMS == 8

MONDAY_BOARD_ID == 2014579172

QUALIFIED_GROUP_ID == "new_group58505__1"

DISQUALIFIED_GROUP_ID == "new_group__1"

DUPLICATE_GROUP_ID == "group_mkqb9ps4"

MONDAY_DROPDOWN_ALLOWED_TAGS == <<"Too far", "Left-handed", "fraudulent">>

\* configs/study_tbi_kessler.py 37-50: form field -> column id.
MONDAY_COLUMN_MAPPINGS ==
    [email |-> "email", phone |-> "phone", dob |-> "date", city_state |-> "text9",
     tbi_year |-> "single_select", memory_issues |-> "single_select3",
     english_fluent |-> "single_select1", handedness |-> "single_select7",
     can_exercise |-> "single_select0", can_mri |-> "single_select9",
     future_study_consent |-> "single_select__1"]

\* A mapping that gives the tags a column: the one of the study with
\* "dropdown" added, as push_to_monday.py 83 expects it.
MappingsWithDropdown == [tags |-> "dropdown"] @@ MONDAY_COLUMN_MAPPINGS

\* Whether the loop of push_to_monday.py 58-89 meets the column id.
HasColumn(monday_column_mappings, monday_column_id) ==
    \E form_field \in DOMAIN monday_column_mappings :
        monday_column_mappings[form_field] = monday_column_id

\* A variant that sends the tags whatever the mappings hold.
DropdownLabels_Always(tags, monday_column_mappings, dropdown_allowed_tags) ==
    [sent |-> TRUE,
     labels |-> SelectSeq(tags, LAMBDA t : \E i \in DOMAIN dropdown_allowed_tags :
                                             dropdown_allowed_tags[i] = t)]

\* [tag for tag in tags if tag in dropdown_allowed_tags]
FilterTags(tags, allowed) ==
    SelectSeq(tags, LAMBDA t : \E i \in DOMAIN allowed : allowed[i] = t)

\* push_to_monday.py 39 and 83-84: column_values["dropdown"] is set to the
\* filtered tags when the mappings name that column, and is not set otherwise.
DropdownLabels(tags, monday_column_mappings, dropdown_allowed_tags) ==
    IF HasColumn(monday_column_mappings, "dropdown")
    THEN [sent |-> TRUE, labels |-> FilterTags(tags, dropdown_allowed_tags)]
    ELSE [sent |-> FALSE, labels |-> <<>>]

\* push_to_monday.py 42: data.get("study_interest_keywords", "").strip()
\* raises AttributeError when the key holds None; the line is outside the
\* try block of 117-137.
KeywordsRaise(data) == Get(data, "study_interest_keywords", <<>>) = None

\* One call of push_to_monday with the positional arguments args, made at
\* call site `site`.  Python binds the arguments before the body runs: a call
\* with fewer than PUSH_TO_MONDAY_PARAMS arguments raises TypeError and
\* nothing is sent; so does a call whose data holds None for the keywords.
\* The body itself catches every error of the HTTP post.
push_to_monday(site, args) ==
    IF Len(args) # PUSH_TO_MONDAY_PARAMS \/ KeywordsRaise(args[1])
    THEN [site |-> site, raised |-> TRUE, data |-> args[1], group_id |-> args[2],
          qualified |-> args[3], tags |-> args[4], dropdown |-> FALSE, labels |-> <<>>]
    ELSE [site |-> site, raised |-> FALSE, data |-> args[1], group_id |-> args[2],
          qualified |-> args[3], tags |-> args[4],
          dropdown |-> DropdownLabels(args[4], args[7], args[8]).sent,
          labels |-> DropdownLabels(args[4], args[7], args[8]).labels]

---------------------------------------------------------------------------
(* check_duplicate.check_duplicate_email                                   *)
(* The board is the sequence of answers Monday.com gives to the page       *)
(* queries 1, 2, ...: [kind |-> "items", items |-> ...] for a 200 answer,  *)
(* [kind |-> "http_error"] when raise_for_status raises HTTPError,         *)
(* [kind |-> "exception"] for any other failure of the request (no         *)
(* connection, a body that is not the expected JSON).  An item is its      *)
(* list of column values [id, text]; a null text is None.  A page after    *)
(* the last answer of the board has no items.                              *)

\* check_duplicate.py 20
page_limit == 5

NoItems == [kind |-> "items", items |-> <<>>]

PageOf(board, number) == IF number \in DOMAIN board THEN board[number] ELSE NoItems

\* A variant that treats a failed page query as a duplicate.
DuplicateOnFailure_Blocks(response) == TRUE

\* check_duplicate.py 59-66: both except clauses return False.
DuplicateOnFailure(response) == FALSE

\* check_duplicate.py 54-57 for one item: "match" when an email column holds
\* the address, "raise" when its text is null (None has no lower()), "none"
\* otherwise.
RECURSIVE ScanColumns(_, _)
ScanColumns(column_values, email) ==
    IF column_values = <<>> THEN "none"
    ELSE IF column_values[1].id = "email"
    THEN IF column_values[1].text = None THEN "raise"
         ELSE IF Lower(column_values[1].text) = Lower(email) THEN "match"
         ELSE ScanColumns(Tail(column_values), email)
    ELSE ScanColumns(Tail(column_values), email)

\* check_duplicate.py 53-57: the items of one page, in order.
RECURSIVE ScanItems(_, _)
ScanItems(items, email) ==
    IF items = <<>> THEN "none"
    ELSE LET found == ScanColumns(items[1], email)
         IN  IF found = "none" THEN ScanItems(Tail(items), email) ELSE found

\* check_duplicate.py 23-68: the loop from `page` (counted from 0) on.
RECURSIVE CheckPages(_, _, _)
CheckPages(email, board, page) ==
    IF page >= page_limit THEN FALSE
    ELSE LET response == PageOf(board, page + 1)
         IN  IF response.kind # "items" THEN DuplicateOnFailure(response)
             ELSE IF response.items = <<>> THEN FALSE
             ELSE LET found == ScanItems(response.items, email)
                  IN  IF found = "match" THEN TRUE
                      ELSE IF found = "raise"
                      THEN DuplicateOnFailure([kind |-> "exception"])
                      ELSE CheckPages(email, board, page + 1)

check_duplicate_email(email, board) == CheckPages(email, board, 0)

---------------------------------------------------------------------------
(* Study configuration: main.load_study_config is imported by app.py but   *)
(* is not part of main.py; it is modelled from the specification:          *)
(* loadStudyConfig(studyId) returns nothing if the study is unknown.       *)

StudyTbiKessler == <<"t", "b", "i", "_", "k", "e", "s", "s", "l", "e", "r">>

KesslerConfig ==
    [FORM_TITLE |-> "Kessler TBI Study Qualification",
     MONDAY_COLUMN_MAPPINGS |-> MONDAY_COLUMN_MAPPINGS,
     MONDAY_DROPDOWN_ALLOWED_TAGS |-> MONDAY_DROPDOWN_ALLOWED_TAGS]

\* The None load_study_config gives for an unknown study.
NoConfig ==
    [FORM_TITLE |-> "", MONDAY_COLUMN_MAPPINGS |-> <<>>, MONDAY_DROPDOWN_ALLOWED_TAGS |-> <<>>]

load_study_config(study_id) ==
    IF study_id = StudyTbiKessler THEN KesslerConfig ELSE NoConfig

---------------------------------------------------------------------------
(* Qualification of one normalized answer set (main.py, form path)         *)

\* A variant of the conjunction that also asks for a right-handed respondent.
Qualified_RightHandedOnly(data, distance_ok) ==
    /\ Get(data, "tbi_year", None) = Yes
    /\ Get(data, "memory_issues", None) = Yes
    /\ Get(data, "english_fluent", None) = Yes
    /\ Get(data, "can_exercise", None) = Yes
    /\ Get(data, "can_mri", None) = Yes
    /\ Get(data, "handedness", None) = RightHanded
    /\ distance_ok

\* main.py 507-514
Qualified(data, distance_ok) ==
    /\ Get(data, "tbi_year", None) = Yes
    /\ Get(data, "memory_issues", None) = Yes
    /\ Get(data, "english_fluent", None) = Yes
    /\ Get(data, "can_exercise", None) = Yes
    /\ Get(data, "can_mri", None) = Yes
    /\ distance_ok

\* Variant of the group choice that files everybody under the disqualified
\* group.
GroupOf_AlwaysDisqualified(qualified) == DISQUALIFIED_GROUP_ID

\* A variant that files everybody under the qualified group.
GroupOf_AlwaysQualified(qualified) == QUALIFIED_GROUP_ID

\* main.py 517
GroupOf(qualified) == IF qualified THEN QUALIFIED_GROUP_ID ELSE DISQUALIFIED_GROUP_ID

\* A variant that tags every respondent who is not right-handed.
TagsOf_NotRightHanded(data, distance_ok) ==
    (IF ~distance_ok THEN <<"Too far">> ELSE <<>>)
    \o (IF Get(data, "handedness", None) # RightHanded THEN <<"Left-handed">> ELSE <<>>)

\* A variant that tags a submission that came with a client address.
TagsOf_FlagsAddress(data, distance_ok) ==
    (IF ~distance_ok THEN <<"Too far">> ELSE <<>>)
    \o (IF Get(data, "handedness", None) = LeftHanded THEN <<"Left-handed">> ELSE <<>>)
    \o (IF "ip" \in DOMAIN data THEN <<"fraudulent">> ELSE <<>>)

\* main.py 518-520
TagsOf(data, distance_ok) ==
    (IF ~distance_ok THEN <<"Too far">> ELSE <<>>)
    \o (IF Get(data, "handedness", None) = LeftHanded THEN <<"Left-handed">> ELSE <<>>)

ReasonIfNotYes(data, field, reason) ==
    IF Get(data, field, None) # Yes THEN <<reason>> ELSE <<>>

\* A variant that lists the reasons in the order of the conjunction of
\* main.py 507-514: the distance comes last.
ReasonsOf_DistanceLast(data, distance_ok) ==
    ReasonIfNotYes(data, "tbi_year", "you have not experienced a TBI at least one year ago")
    \o ReasonIfNotYes(data, "memory_issues", "you do not have persistent memory problems")
    \o ReasonIfNotYes(data, "english_fluent", "you are not fluent in English")
    \o ReasonIfNotYes(data, "can_exercise", "you are not willing or able to exercise")
    \o ReasonIfNotYes(data, "can_mri", "you are not able to undergo an MRI")
    \o (IF ~distance_ok
        THEN <<"you are located outside the eligible distance from our research site">>
        ELSE <<>>)

\* main.py 522-530
ReasonsOf(data, distance_ok) ==
    (IF ~distance_ok
     THEN <<"you are located outside the eligible distance from our research site">>
     ELSE <<>>)
    \o ReasonIfNotYes(data, "tbi_year", "you have not experienced a TBI at least one year ago")
    \o ReasonIfNotYes(data, "memory_issues", "you do not have persistent memory problems")
    \o ReasonIfNotYes(data, "english_fluent", "you are not fluent in English")
    \o ReasonIfNotYes(data, "can_exercise", "you are not willing or able to exercise")
    \o ReasonIfNotYes(data, "can_mri", "you are not able to undergo an MRI")

\* ", ".join(parts)
RECURSIVE JoinWith(_, _)
JoinWith(sep, parts) ==
    IF parts = <<>> THEN ""
    ELSE IF Len(parts) = 1 THEN parts[1]
    ELSE parts[1] \o sep \o JoinWith(sep, Tail(parts))

\* A variant that joins the reasons with commas only.
FormReasonsStr_Commas(reasons) == JoinWith(", ", reasons)

\* main.py 556: ", and ".join([", ".join(reasons[:-1]), reasons[-1]]) for more
\* than one reason, the reason itself for one.
FormReasonsStr(reasons) ==
    IF Len(reasons) > 1
    THEN JoinWith(", and ", <<JoinWith(", ", SubSeq(reasons, 1, Len(reasons) - 1)),
                              reasons[Len(reasons)]>>)
    ELSE reasons[1]

\* main.py 555-559
DisqualifiedMessage(reasons) ==
    IF Len(reasons) > 0
    THEN "Thank you for your interest. Unfortunately, based on your answers, you do not meet the current study criteria because "
         \o FormReasonsStr(reasons) \o ". We appreciate your time."
    ELSE "Thank you for your interest. Unfortunately, based on your answers, you do not meet the current study criteria. We appreciate your time."

\* Variant of the routing decision in which only qualified respondents are
\* verified: the consent branch (main.py 540-547) is left out.
Routing_QualifiedOnly(qualified, data) ==
    IF qualified
    THEN [sms_required_flag |-> TRUE, push_to_monday_flag |-> TRUE,
          final_message |-> "Thank you! Based on your answers, you may qualify for a TBI study."]
    ELSE [sms_required_flag |-> FALSE, push_to_monday_flag |-> FALSE,
          final_message |-> ""]

\* Variant of the routing decision in which every evaluated respondent is
\* verified: the final branch (main.py 548-562) is left out.
Routing_AlwaysVerify(qualified, data) ==
    [sms_required_flag |-> TRUE, push_to_monday_flag |-> TRUE,
     final_message |-> "Thank you! Based on your answers, you may qualify for a TBI study."]

\* main.py 532-554: the routing decision.
Routing(qualified, data) ==
    IF qualified
    THEN [sms_required_flag |-> TRUE, push_to_monday_flag |-> TRUE,
          final_message |-> "Thank you! Based on your answers, you may qualify for a TBI study."]
    ELSE IF ~qualified /\ Get(data, "future_study_consent", None) = IConfirm
    THEN [sms_required_flag |-> TRUE, push_to_monday_flag |-> TRUE,
          final_message |-> "Thank you for your interest. Based on your answers, you do not meet the current study criteria, but since you opted for future studies, we will verify your contact information."]
    ELSE [sms_required_flag |-> FALSE, push_to_monday_flag |-> FALSE,
          final_message |-> ""]

\* "\n".join([f"{k}: {v}" for k, v in ip_data.items()])
IpInfoText(ip_data) ==
    JoinWith("\n", [i \in DOMAIN ip_data |-> ip_data[i][1] \o ": " \o ip_data[i][2]])

\* A variant that stores a code other than the one generated.
FormSession_OtherCode(data, code, routing, group, qualified, tags, ip_info_text) ==
    [data |-> data,
     code |-> <<"0", "0", "0", "0">>,
     push_to_monday_flag |-> routing.push_to_monday_flag,
     group |-> group,
     qualified |-> qualified,
     tags |-> tags,
     ip_info_text |-> ip_info_text]

\* main.py 571-579: the dict stored under the submission id.
FormSession(data, code, routing, group, qualified, tags, ip_info_text) ==
    [data |-> data,
     code |-> code,
     push_to_monday_flag |-> routing.push_to_monday_flag,
     group |-> group,
     qualified |-> qualified,
     tags |-> tags,
     ip_info_text |-> ip_info_text]

\* Messages of the form path (main.py 472-600)
MsgInvalidEmail == "Invalid email address format. Please provide a valid email (e.g., example@domain.com)."

MsgInvalidPhone == "Invalid US phone number format. Please enter a 10-digit US number (e.g. 5551234567)."

MsgDobMissing == "Date of birth is missing."

MsgCityMissing == "City and State information is missing."

MsgDuplicate == "It looks like you've already submitted an application for this platform. We'll be in touch if you qualify!"

MsgNoLocation == "Sorry, we couldn't determine your location from the provided City/State. Please ensure it's correct (e.g., 'Newark, NJ')."

MsgSmsFailed(sms_error_msg) ==
    "Failed to send SMS for verification: " \o sms_error_msg
    \o ". Please check your phone number and try again."

MsgUnexpected == "An unexpected error occurred during qualification. Please try again."

MsgSmsPrompt == " Please check your phone for a 4-digit verification code."

ErrorResponse(message) == [status |-> "error", message |-> message]

---------------------------------------------------------------------------
(* twilio_sms.send_verification_sms: (success, error message).             *)
(* twilio_ok is whether client.messages.create returned.                   *)

\* twilio_sms.py 42, 57
MsgNotUsNumber == "Internal error: Phone number not a valid U.S. number format for SMS."

MsgTwilioFailed == "Failed to send SMS. Please check your number and try again."

send_verification_sms(to_number, code, twilio_ok) ==
    IF ~is_us_number(to_number) THEN <<FALSE, MsgNotUsNumber>>
    ELSE IF twilio_ok THEN <<TRUE, "">>
    ELSE <<FALSE, MsgTwilioFailed>>

---------------------------------------------------------------------------
(* main.process_qualification_submission_from_form                         *)
(*                                                                         *)
(* env holds what the collaborators answer during this request:            *)
(*   dup      check_duplicate_email(...)                                   *)
(*   coords   get_coords_from_city_state(...)                              *)
(*   ip_data  get_location_from_ip(...)                                    *)
(*   code     generate_verification_code()                                 *)
(*   uuid     str(uuid.uuid4())                                            *)
(*   twilio   whether the SMS provider accepts the message                 *)
(* The result holds the response, the collaborator calls made, in order,   *)
(* the push_to_monday calls among them, the verdict computed (if the       *)
(* qualification logic of lines 500-530 ran) and the session store after.  *)

Call(fn, arg) == [fn |-> fn, arg |-> arg]

NoVerdict == [evaluated |-> FALSE, qualified |-> FALSE, reasons |-> <<>>, tags |-> <<>>]

Outcome(resp, calls, pushes, verdict, store) ==
    [resp |-> resp, calls |-> calls, pushes |-> pushes, verdict |-> verdict,
     sessions |-> store]

\* A variant that leaves the answers as they were typed.
FormData_Raw(form_data, ip_address) ==
    IF Truthy(ip_address) THEN Put(form_data, "ip", ip_address) ELSE form_data

\* main.py 460-464
FormData(form_data, ip_address) ==
    LET data == normalize_fields(form_data)
    IN  IF Truthy(ip_address) THEN Put(data, "ip", ip_address) ELSE data

\* Variant of the validation without the phone check (main.py 474-478).
ValidationError_NoPhoneCheck(data, today) ==
    IF Get(data, "email", <<>>) = None THEN MsgUnexpected
    ELSE IF ~email_regex_match(Get(data, "email", <<>>)) THEN MsgInvalidEmail
    ELSE IF ~Truthy(Get(data, "dob", <<>>)) THEN MsgDobMissing
    ELSE IF calculate_age(Get(data, "dob", <<>>), today).raised
         THEN calculate_age(Get(data, "dob", <<>>), today).error
    ELSE IF ~Truthy(Get(data, "city_state", <<>>)) THEN MsgCityMissing
    ELSE ""

\* main.py 469-490: the message of the first failed check, or "" if none.
\* re.match (471) and the re.sub of is_us_number (475) raise TypeError on
\* None; `except Exception` (597-600) answers it with the general message.
ValidationError(data, today) ==
    IF Get(data, "email", <<>>) = None THEN MsgUnexpected
    ELSE IF ~email_regex_match(Get(data, "email", <<>>)) THEN MsgInvalidEmail
    ELSE IF Get(data, "phone", <<>>) = None THEN MsgUnexpected
    ELSE IF ~is_us_number(Get(data, "phone", <<>>)) THEN MsgInvalidPhone
    ELSE IF ~Truthy(Get(data, "dob", <<>>)) THEN MsgDobMissing
    ELSE IF calculate_age(Get(data, "dob", <<>>), today).raised
         THEN calculate_age(Get(data, "dob", <<>>), today).error
    ELSE IF ~Truthy(Get(data, "city_state", <<>>)) THEN MsgCityMissing
    ELSE ""

\* main.py 496-498: the duplicate branch.  An exception of the push is
\* caught by `except Exception` (597-600).
DuplicateBranch(data, calls, store) ==
    LET duplicate_info == [email |-> Get(data, "email", None),
                           name |-> Get(data, "name", <<"D", "u", "p", "l", "i", "c", "a", "t", "e", " ", "F", "o", "r", "m">>),
                           source |-> <<"F", "o", "r", "m", " ", "S", "u", "b", "m", "i", "s", "s", "i", "o", "n">>]
        push == push_to_monday("form_duplicate",
                               <<duplicate_info, DUPLICATE_GROUP_ID, FALSE, <<"Duplicate">>, "", MONDAY_BOARD_ID>>)
        calls2 == Append(calls, Call("push_to_monday", <<>>))
    IN  IF push.raised
        THEN Outcome(ErrorResponse(MsgUnexpected), calls2, <<push>>, NoVerdict, store)
        ELSE Outcome([status |-> "duplicate", message |-> MsgDuplicate],
                     calls2, <<push>>, NoVerdict, store)

\* Variant of the SMS failure path without `del sessions[submission_id]`.
StoreAfterSmsFailure_Keeps(store, submission_id) == store

\* Variant of the SMS failure path that empties the store.
StoreAfterSmsFailure_Clears(store, submission_id) == <<>>

\* main.py 589: what the store is after the SMS could not be sent.
StoreAfterSmsFailure(store, submission_id) == Del(store, submission_id)

\* main.py 566-591: store the session, send the code.
VerificationBranch(data, ip_address, env, calls, verdict, routing, group, store) ==
    LET ip_info_text == IF Truthy(ip_address) THEN IpInfoText(env.ip_data) ELSE ""
        calls2 == IF Truthy(ip_address)
                  THEN Append(calls, Call("get_location_from_ip", ip_address))
                  ELSE calls
        submission_id == env.uuid
        stored == Put(store, submission_id,
                      FormSession(data, env.code, routing, group, verdict.qualified,
                                  verdict.tags, ip_info_text))
        formatted_phone_number == format_us_number(Get(data, "phone", <<>>))
        sms == send_verification_sms(formatted_phone_number, env.code, env.twilio)
        sms_success == sms[1]
        sms_error_msg == sms[2]
        calls3 == Append(calls2, Call("send_verification_sms", env.code))
    IN  IF sms_success
        THEN Outcome([status |-> "sms_required", submission_id |-> submission_id,
                      message |-> routing.final_message \o MsgSmsPrompt],
                     calls3, <<>>, verdict, stored)
        ELSE Outcome(ErrorResponse(MsgSmsFailed(sms_error_msg)), calls3, <<>>, verdict,
                     StoreAfterSmsFailure(stored, submission_id))

\* main.py 500-591: geocoding, qualification, routing.
\* main.py 507-530: the verdict on the normalized answers.
Evaluate(data, distance_ok) ==
    [evaluated |-> TRUE,
     qualified |-> Qualified(data, distance_ok),
     reasons |-> ReasonsOf(data, distance_ok),
     tags |-> TagsOf(data, distance_ok)]

QualificationBranch(data, ip_address, env, calls, store) ==
    LET calls2 == Append(calls, Call("get_coords_from_city_state", Get(data, "city_state", <<>>)))
    IN  IF CoordsUnusable(env.coords)
        THEN Outcome(ErrorResponse(MsgNoLocation), calls2, <<>>, NoVerdict, store)
        ELSE LET distance_ok == is_within_distance(env.coords.latitude, env.coords.longitude)
                 verdict == Evaluate(data, distance_ok)
                 qualified == verdict.qualified
                 group == GroupOf(qualified)
                 routing == Routing(qualified, data)
             IN  IF ~routing.sms_required_flag
                 THEN Outcome([status |-> "disqualified_no_capture",
                               message |-> DisqualifiedMessage(verdict.reasons)],
                              calls2, <<>>, verdict, store)
                 ELSE VerificationBranch(data, ip_address, env, calls2, verdict,
                                         routing, group, store)

process_qualification_submission_from_form(form_data, ip_address, env, today, store) ==
    LET data == FormData(form_data, ip_address)
        invalid == ValidationError(data, today)
        calls == <<Call("check_duplicate_email", Get(data, "email", <<>>))>>
    IN  IF invalid # ""
        THEN Outcome(ErrorResponse(invalid), <<>>, <<>>, NoVerdict, store)
        ELSE IF env.dup
        THEN DuplicateBranch(data, calls, store)
        ELSE QualificationBranch(data, ip_address, env, calls, store)

---------------------------------------------------------------------------
(* app.verify_code                                                         *)

MsgSessionNotFound == "Verification session expired or not found. Please resubmit the form."

MsgConfigMissing == "Verification failed: Study configuration missing."

MsgInvalidCode == "That code doesn't match. Please try again."

\* `quote` is called at app.py 185, 194, 244 and 254 and is neither imported
\* nor defined in app.py: evaluating it raises NameError.  Inside the try
\* block the handler at 250-258 catches it and raises it again from its own
\* quote(...) call, so the request ends with an unhandled exception.
UnhandledNameError == [status |-> "unhandled_exception", message |-> "NameError: name 'quote' is not defined"]

\* The keys verify_code reads at app.py 212-217, in order.
VerifyReads == <<"data", "group", "qualified", "tags", "ip_info_text", "monday_board_id">>

\* Whether one of those subscripts raises KeyError.
RaisesKeyError(submission_data) ==
    \E i \in DOMAIN VerifyReads : VerifyReads[i] \notin DOMAIN submission_data

VerifyOutcome(resp, matched, pushes, store) ==
    [resp |-> resp, matched |-> matched, pushes |-> pushes, sessions |-> store]

\* app.py 219-248: after the session's fields were read.  A push that
\* raises leaves the try block before `del sessions[...]` (232).
VerifyMatched(submission_id, submission_data, store) ==
    LET data_to_push == submission_data["data"]
        study_id_for_verify == Get(data_to_push, "study_id", None)
        verify_study_config == load_study_config(study_id_for_verify)
    IN  IF verify_study_config = NoConfig
        THEN VerifyOutcome(ErrorResponse(MsgConfigMissing), TRUE, <<>>, store)
        ELSE LET pushes ==
                     IF submission_data["push_to_monday_flag"]
                     THEN <<push_to_monday("verify_code",
                                <<data_to_push, submission_data["group"],
                                  submission_data["qualified"], submission_data["tags"],
                                  submission_data["ip_info_text"],
                                  submission_data["monday_board_id"],
                                  verify_study_config.MONDAY_COLUMN_MAPPINGS,
                                  verify_study_config.MONDAY_DROPDOWN_ALLOWED_TAGS>>)>>
                     ELSE <<>>
             IN  IF \E i \in DOMAIN pushes : pushes[i].raised
                 THEN VerifyOutcome(UnhandledNameError, TRUE, pushes, store)
                 ELSE VerifyOutcome(UnhandledNameError, TRUE, pushes,
                                    Del(store, submission_id))

\* A variant that drops the session after a wrong code.
VerifyMismatched_Drops(submission_id, store) ==
    VerifyOutcome([status |-> "invalid_code", message |-> MsgInvalidCode],
                  FALSE, <<>>, Del(store, submission_id))

\* app.py 259-261: the code did not match; the store is not touched.
VerifyMismatched(submission_id, store) ==
    VerifyOutcome([status |-> "invalid_code", message |-> MsgInvalidCode],
                  FALSE, <<>>, store)

verify_code(submission_id, code, store) ==
    IF submission_id \notin DOMAIN store
    THEN VerifyOutcome(ErrorResponse(MsgSessionNotFound), FALSE, <<>>, store)
    ELSE LET submission_data == store[submission_id]
         IN  IF code = submission_data["code"]
             THEN IF RaisesKeyError(submission_data)
                  THEN VerifyOutcome(UnhandledNameError, TRUE, <<>>, store)
                  ELSE VerifyMatched(submission_id, submission_data, store)
             ELSE VerifyMismatched(submission_id, store)

---------------------------------------------------------------------------
(* The chatbot: main.start_session, main.handle_input                      *)

\* main.py 31-36
questions ==
    <<"name", "email", "phone", "dob", "city_state", "tbi_year", "memory_issues",
      "english_fluent", "handedness", "can_exercise", "can_mri",
      "future_study_consent", "study_interest_keywords">>

\* questions.index(key): Python counts from 0.
QuestionIndex(key) == (CHOOSE i \in DOMAIN questions : questions[i] = key) - 1

\* main.py 38-52
question_prompts ==
    [name |-> "Can I have your full name?",
     email |-> "Okay, {name}. What's your email address?",
     phone |-> "Thanks, {name}. What's the best phone number to reach you? (10-digit US number, e.g. 5551234567)",
     dob |-> "And your date of birth? (MM/DD/YYYY)",
     city_state |-> "Where are you currently located? (City and State)",
     tbi_year |-> "Have you experienced a traumatic brain injury at least one year ago? (Yes/No)",
     memory_issues |-> "Do you have persistent memory problems? (Yes/No)",
     english_fluent |-> "Are you able to read and speak English well? (Yes/No)",
     handedness |-> "Are you left or right-handed?",
     can_exercise |-> "Are you willing and able to exercise? (Yes/No)",
     can_mri |-> "Are you able to undergo an MRI? (Yes/No)",
     future_study_consent |-> "Would you like us to contact you about future studies? (Yes/No)",
     study_interest_keywords |-> "Great! What types of studies would you be interested in? (e.g., Diabetes, Depression, Asthma, TBI). Please list comma separated:"]

\* The prompts that contain "{name}" (main.py 40-41).
PromptsWithName == {"email", "phone"}

\* main.py 261
TriggerWords ==
    { <<"y", "e", "s">>,
      <<"s", "t", "a", "r", "t">>,
      <<"b", "e", "g", "i", "n">>,
      <<"q", "u", "a", "l", "i", "f", "y">>,
      <<"p", "a", "r", "t", "i", "c", "i", "p", "a", "t", "e">>,
      <<"s", "i", "g", "n", " ", "m", "e", " ", "u", "p">>,
      <<"r", "e", "a", "d", "y">> }

\* str.split(" ")[0]
FirstWord(s) ==
    LET blanks == {i \in DOMAIN s : s[i] = " "}
    IN  IF blanks = {} THEN s
        ELSE SubSeq(s, 1, (CHOOSE i \in blanks : \A j \in blanks : i <= j) - 1)

\* main.py 428-432: the prompt of a question.  str.format(name=first_name) is
\* kept as the template together with its argument.
Prompt(key, data) ==
    LET first_name == IF Truthy(Get(data, "name", <<>>))
                      THEN FirstWord(data["name"]) ELSE <<>>
    IN  IF key \in PromptsWithName
        THEN [template |-> question_prompts[key], name |-> first_name]
        ELSE question_prompts[key]

\* Replies of the chatbot (main.py 250-441)
MsgNoSession == "Unable to start session. Please refresh and try again."

MsgGptFallback == "I'm here to help you learn more about TBI studies or see if you might qualify. Would you like to begin the quick pre-qualifier now?"

\* What the language model wrote, when the call succeeded.
MsgGptAnswer == "<response.choices[0].message.content.strip()>"

MsgPhoneMissing == "A required piece of information (phone number) is missing for verification. Please restart the qualification."

MsgCodeSent == "Thanks! Please check your phone and enter the 4-digit code we just sent you to confirm your submission."

MsgChatSmsFailed(error_msg) == error_msg \o " Please enter a new 10-digit US phone number."

MsgChatValueError(ve) ==
    "There was an issue with your provided information: " \o ve \o ". Please try again."

MsgChatNoLocation == "Sorry, we couldn't determine your location for qualification. Please enter your city and state again like 'Newark, NJ'."

MsgChatFinalError == "Something went wrong while confirming your submission. Please try again."

MsgNotTheCode == "That wasn't the code. If you wish to change your number, please enter a valid 10-digit US phone number."

MsgChatWrongCode == "That code doesn't match. Please check your SMS and enter the correct 4-digit code."

MsgLooksLikeEmail == "That looks like an email address, but I need a 10-digit US phone number."

MsgChatInvalidPhone == "That doesn't look like a valid US phone number. Please enter a 10-digit US number (e.g. 5551234567)."

MsgChatInvalidEmail == "That doesn't look like a valid email address. Please provide a valid email (e.g., example@domain.com)."

MsgChatDuplicate == "It looks like you've already submitted an application for this platform. We'll be in touch if you qualify!"

MsgChatError == "Something went wrong. Please try again."

\* `session["ip"]` or `session["step"]` on a dict stored by the form path
\* (main.py 252, 255): outside every try block.
UnhandledKeyError == [status |-> "unhandled_exception", message |-> "KeyError"]

\* main.py 82-91
start_session(session_id, code, store) ==
    Put(store, session_id,
        [step |-> -1, data |-> <<>>, verified |-> FALSE, code |-> code, ip |-> None])

\* main.py 203-240: the answer of the language model, or the fallback when
\* the call raises.
ask_gpt(question, gpt_ok) == IF gpt_ok THEN MsgGptAnswer ELSE MsgGptFallback

\* main.py 259-264
ChatGreeting(session_id, session, text, env, store) ==
    LET lowered == Lower(text)
    IN  IF \E p \in TriggerWords : Contains(lowered, p)
        THEN Outcome(question_prompts[questions[1]], <<>>, <<>>, NoVerdict,
                     Put(store, session_id, [session EXCEPT !.step = 0]))
        ELSE Outcome(ask_gpt(text, env.gpt), <<Call("ask_gpt", text)>>, <<>>, NoVerdict,
                     Put(store, session_id, session))

\* main.py 269-285 and, word for word, 406-422: send the code.
ChatSendCode(session_id, session, env, calls, store) ==
    LET phone_number == Get(session.data, "phone", <<>>)
        formatted_phone_number == format_us_number(phone_number)
        sms == send_verification_sms(formatted_phone_number, session.code, env.twilio)
        calls2 == Append(calls, Call("send_verification_sms", session.code))
    IN  IF ~Truthy(phone_number)
        THEN Outcome(MsgPhoneMissing, calls, <<>>, NoVerdict,
                     Put(store, session_id, session))
        ELSE IF sms[1]
        THEN Outcome(MsgCodeSent, calls2, <<>>, NoVerdict,
                     Put(store, session_id, [session EXCEPT !.verified = TRUE]))
        ELSE Outcome(MsgChatSmsFailed(sms[2]), calls2, <<>>, NoVerdict,
                     Put(store, session_id,
                         [session EXCEPT !.step = QuestionIndex("phone"),
                                         !.data = Put(@, "phone", <<>>),
                                         !.verified = FALSE]))

\* main.py 322-329: the reasons, with the one for age after the one for
\* distance.
ChatReasonsOf(data, distance_ok, age) ==
    LET reasons == ReasonsOf(data, distance_ok)
        head == IF ~distance_ok THEN 1 ELSE 0
    IN  SubSeq(reasons, 1, head)
        \o (IF age < MIN_AGE THEN <<"you are under 18 years old">> ELSE <<>>)
        \o SubSeq(reasons, head + 1, Len(reasons))

\* main.py 340-351
ChatFinalMessage(qualified, reasons) ==
    IF qualified
    THEN "Thank you! Based on your answers, you may qualify for a TBI study. We will contact you soon with more details."
    ELSE IF Len(reasons) > 1
    THEN "Thank you for your interest. Unfortunately, based on your answers, you do not meet the current study criteria because "
         \o JoinWith(", ", SubSeq(reasons, 1, Len(reasons) - 1)) \o ", and "
         \o reasons[Len(reasons)] \o ". We appreciate your time!"
    ELSE IF Len(reasons) > 0
    THEN "Thank you for your interest. Unfortunately, based on your answers, you do not meet the current study criteria because "
         \o reasons[1] \o ". We appreciate your time!"
    ELSE "Thank you for your interest. Unfortunately, based on your answers, you do not meet the current study criteria. We appreciate your time!"

\* Variant of the condition of main.py 335 that records every respondent.
ChatPushRequired_Always(qualified, data) == TRUE

\* main.py 335
ChatPushRequired(qualified, data) ==
    qualified \/ Get(data, "future_study_consent", None) = IConfirm

\* main.py 301-354: geocoding, qualification, recording, final message.  A
\* push that raises is caught at 360-363, before `del sessions[session_id]`.
ChatQualification(session_id, session, data, age, env, store) ==
    LET kept == Put(store, session_id, session)
        calls == <<Call("get_coords_from_city_state", Get(data, "city_state", <<>>))>>
    IN  IF CoordsUnusable(env.coords)
        THEN Outcome(MsgChatNoLocation, calls, <<>>, NoVerdict, kept)
        ELSE LET distance_ok == is_within_distance(env.coords.latitude, env.coords.longitude)
                 qualified == age >= MIN_AGE /\ Qualified(data, distance_ok)
                 group == GroupOf(qualified)
                 tags == TagsOf(data, distance_ok)
                 verdict == [evaluated |-> TRUE, qualified |-> qualified,
                             reasons |-> ChatReasonsOf(data, distance_ok, age),
                             tags |-> tags]
                 ip_data == IF Truthy(session.ip) THEN env.ip_data ELSE <<>>
                 ipinfo_text == IF ip_data # <<>> THEN IpInfoText(ip_data) ELSE ""
                 calls2 == Append(calls, Call("get_location_from_ip", session.ip))
                 calls3 == Append(calls2, Call("push_to_monday", <<>>))
                 push == push_to_monday("chat_final",
                                        <<data, group, qualified, tags, ipinfo_text,
                                          MONDAY_BOARD_ID>>)
                 final_message == ChatFinalMessage(qualified, verdict.reasons)
             IN  IF ~ChatPushRequired(qualified, data)
                 THEN Outcome(final_message, calls2, <<>>, verdict, Del(store, session_id))
                 ELSE IF push.raised
                 THEN Outcome(MsgChatFinalError, calls3, <<push>>, verdict, kept)
                 ELSE Outcome(final_message, calls3, <<push>>, verdict,
                              Del(store, session_id))

\* main.py 288-363: the code typed is the session's code.  The ValueErrors
\* are caught at 356-359.
ChatFinal(session_id, session, env, today, store) ==
    LET data == normalize_fields(session.data)
        kept == Put(store, session_id, session)
        dob_value == Get(data, "dob", <<>>)
        aged == calculate_age(dob_value, today)
    IN  IF ~Truthy(dob_value)
        THEN Outcome(MsgChatValueError("Date of birth is missing."),
                     <<>>, <<>>, NoVerdict, kept)
        ELSE IF aged.raised
        THEN Outcome(MsgChatValueError(aged.error), <<>>, <<>>, NoVerdict, kept)
        ELSE IF ~Truthy(Get(data, "city_state", <<>>))
        THEN Outcome(MsgChatValueError("City and State information is missing."),
                     <<>>, <<>>, NoVerdict, kept)
        ELSE ChatQualification(session_id, session, data, aged.age, env, store)

\* A variant that goes back to the phone question without clearing the
\* verified flag.
ChatWrongCode_StaysVerified(session_id, session, text, store) ==
    IF is_us_number(text)
    THEN Outcome(MsgNotTheCode, <<>>, <<>>, NoVerdict,
                 Put(store, session_id,
                     [session EXCEPT !.step = QuestionIndex("phone"),
                                     !.data = Put(@, "phone", <<>>)]))
    ELSE Outcome(MsgChatWrongCode, <<>>, <<>>, NoVerdict, Put(store, session_id, session))

\* main.py 364-372: the text typed is not the session's code.
ChatWrongCode(session_id, session, text, store) ==
    IF is_us_number(text)
    THEN Outcome(MsgNotTheCode, <<>>, <<>>, NoVerdict,
                 Put(store, session_id,
                     [session EXCEPT !.step = QuestionIndex("phone"),
                                     !.data = Put(@, "phone", <<>>),
                                     !.verified = FALSE]))
    ELSE Outcome(MsgChatWrongCode, <<>>, <<>>, NoVerdict, Put(store, session_id, session))

\* A variant that reports the duplicate and leaves the session at the email
\* question.
ChatDuplicate_StepKept(session_id, session, text, calls, store) ==
    LET kept == Put(store, session_id, session)
        push == push_to_monday("chat_duplicate",
                               <<[email |-> text, name |-> <<"D", "u", "p", "l", "i", "c", "a", "t", "e">>],
                                 DUPLICATE_GROUP_ID, FALSE, <<"Duplicate">>, "",
                                 MONDAY_BOARD_ID>>)
        calls2 == Append(calls, Call("push_to_monday", <<>>))
    IN  IF push.raised
        THEN Outcome(MsgChatError, calls2, <<push>>, NoVerdict, kept)
        ELSE Outcome(MsgChatDuplicate, calls2, <<push>>, NoVerdict, kept)

\* main.py 393-396: the email is known.  An exception of the push is caught
\* at 438-441, after the step was moved.
ChatDuplicate(session_id, session, text, calls, store) ==
    LET moved == Put(store, session_id, [session EXCEPT !.step = Len(questions)])
        push == push_to_monday("chat_duplicate",
                               <<[email |-> text, name |-> <<"D", "u", "p", "l", "i", "c", "a", "t", "e">>],
                                 DUPLICATE_GROUP_ID, FALSE, <<"Duplicate">>, "",
                                 MONDAY_BOARD_ID>>)
        calls2 == Append(calls, Call("push_to_monday", <<>>))
    IN  IF push.raised
        THEN Outcome(MsgChatError, calls2, <<push>>, NoVerdict, moved)
        ELSE Outcome(MsgChatDuplicate, calls2, <<push>>, NoVerdict, moved)

\* main.py 398-432: store the answer, move on, send the code after the last
\* question.
ChatStore(session_id, session, current_question, text, env, calls, store) ==
    LET normalized_data_for_current == normalize_fields(Put(<<>>, current_question, text))
        answered == [session EXCEPT
                        !.data = Put(@, current_question,
                                     Get(normalized_data_for_current, current_question, text)),
                        !.step = @ + 1]
    IN  IF answered.step = Len(questions)
        THEN ChatSendCode(session_id, answered, env, calls, store)
        ELSE Outcome(Prompt(questions[answered.step + 1], answered.data),
                     calls, <<>>, NoVerdict, Put(store, session_id, answered))

\* main.py 374-432: an answer to the question at `step`.
ChatAnswer(session_id, session, text, env, store) ==
    LET current_question == questions[session.step + 1]
        kept == Put(store, session_id, session)
        calls == <<Call("check_duplicate_email", text)>>
    IN  IF current_question = "phone" /\ email_regex_match(text)
        THEN Outcome(MsgLooksLikeEmail, <<>>, <<>>, NoVerdict, kept)
        ELSE IF current_question = "phone" /\ ~is_us_number(text)
        THEN Outcome(MsgChatInvalidPhone, <<>>, <<>>, NoVerdict, kept)
        ELSE IF current_question = "email" /\ ~email_regex_match(text)
        THEN Outcome(MsgChatInvalidEmail, <<>>, <<>>, NoVerdict, kept)
        ELSE IF current_question = "email" /\ env.dup
        THEN ChatDuplicate(session_id, session, text, calls, store)
        ELSE ChatStore(session_id, session, current_question, text, env,
                       IF current_question = "email" THEN calls ELSE <<>>, store)

\* main.py 244-441.  env.gpt is whether the language model answered.
handle_input(session_id, user_input, ip_address, env, today, store) ==
    IF session_id \notin DOMAIN store
    THEN Outcome(MsgNoSession, <<>>, <<>>, NoVerdict, store)
    ELSE IF "step" \notin DOMAIN store[session_id]
    THEN Outcome(UnhandledKeyError, <<>>, <<>>, NoVerdict, store)
    ELSE LET stored == store[session_id]
             session == IF Truthy(ip_address) /\ ~Truthy(stored.ip)
                        THEN [stored EXCEPT !.ip = ip_address] ELSE stored
             text == Strip(user_input)
         IN  IF session.step = -1
             THEN ChatGreeting(session_id, session, text, env, store)
             ELSE IF session.step = Len(questions)
             THEN IF ~session.verified
                  THEN ChatSendCode(session_id, session, env, <<>>, store)
                  ELSE IF text = session.code
                  THEN ChatFinal(session_id, session, env, today, store)
                  ELSE ChatWrongCode(session_id, session, text, store)
             ELSE ChatAnswer(session_id, session, text, env, store)

---------------------------------------------------------------------------
(* Inputs the model draws from                                             *)

\* Session ids (uuid4 values) the model may draw.
MaxIds == 2

\* Verification requests per session that carry the code generated for it.
MaxCorrect == 2

\* An id no session was ever stored under.
UnknownId == 0

Code1000 == <<"1", "0", "0", "0">>

Code9999 == <<"9", "9", "9", "9">>

Code0000 == <<"0", "0", "0", "0">>

\* generate_verification_code(): str(random.randint(1000, 9999))
Codes == {Code1000, Code9999}

\* Codes a user may submit; Code0000 is never generated.
SubmittedCodes == Codes \cup {Code0000}

NoIp == None

Ip1 == <<"2", "0", "3", ".", "0", ".", "1", "1", "3", ".", "7">>

IpData1 == <<<<"city", "Newark">>, <<"region", "New Jersey">>>>

GeoAnswers == {NoCoords, Newark, Philadelphia, Equator}

\* get_location_from_ip(...) answers: {} on failure, else the ipinfo record.
IpAnswers == {<<>>, IpData1}

Todays == {[year |-> 2026, month |-> 10, day |-> 29]}

\* Scenario B of the specification: every criterion met, left-handed.
BaseForm ==
    [name |-> <<"A", "l">>,
     email |-> <<"a", "l", "@", "x", ".", "i", "o">>,
     phone |-> <<"5", "5", "5", "1", "2", "3", "4", "5", "6", "7">>,
     dob |-> <<"0", "1", "/", "1", "5", "/", "2", "0", "0", "0">>,
     city_state |-> <<"N", "e", "w", "a", "r", "k", ",", " ", "N", "J">>,
     tbi_year |-> <<"y", "e", "s">>,
     memory_issues |-> <<"Y", "e", "s">>,
     english_fluent |-> <<"Y">>,
     handedness |-> <<"l", "e", "f", "t">>,
     can_exercise |-> <<"Y", "e", "s">>,
     can_mri |-> <<"Y", "e", "s">>,
     future_study_consent |-> <<"y", "e", "s">>,
     study_id |-> StudyTbiKessler]

\* Answers that replace those of BaseForm: variants that pass validation ...
ValidOverrides ==
    { <<>>,
      [can_exercise |-> <<"N", "o">>] }

\* ... a variant with two unmet criteria, the first answer typed between a
\* next-line character and a no-break space ...
TwoReasons == [tbi_year |-> <<"", "n", " ">>, can_mri |-> <<"n", "o">>]

\* ... and variants that fail it: email without "@", nine-digit phone, no
\* date of birth, month 13, a seventeenth birthday still a day away, no
\* location, and a null for the email or for the phone.
InvalidOverrides ==
    { [email |-> None],
      [phone |-> None],
      [email |-> <<"a", "l", ".", "i", "o">>],
      [phone |-> <<"5", "5", "5", "1", "2", "3", "4", "5", "6">>],
      [dob |-> <<>>],
      [dob |-> <<"1", "3", "/", "0", "1", "/", "2", "0", "0", "0">>],
      [dob |-> <<"1", "0", "/", "3", "0", "/", "2", "0", "0", "8">>],
      [city_state |-> <<>>] }

ConsentAnswers == {<<"y", "e", "s">>, <<"n", "o">>}

Override(base, o) == [k \in DOMAIN base |-> IF k \in DOMAIN o THEN o[k] ELSE base[k]]

WithConsent(form, c) == [form EXCEPT !["future_study_consent"] = c]

ValidForms == {WithConsent(Override(BaseForm, o), c) : o \in ValidOverrides, c \in ConsentAnswers}

Forms ==
    ValidForms
    \cup {WithConsent(Override(BaseForm, TwoReasons), <<"n", "o">>)}
    \cup {Override(BaseForm, o) : o \in InvalidOverrides}

\* The (form, client address) pairs submitted: every form without an
\* address, and the all-criteria-met form declining future contact with one.
Submissions ==
    {<<f, NoIp>> : f \in Forms}
    \cup {<<WithConsent(BaseForm, <<"n", "o">>), Ip1>>}

---------------------------------------------------------------------------
(* State                                                                   *)

VARIABLES
    sessions,   \* main.sessions: submission/session id -> dict
    uuids,      \* how many uuid4 values were drawn; they are 1..uuids
    today,      \* datetime.date.today()
    last,       \* the request handled last: inputs, response, calls made
    before,     \* main.sessions when that request started
    issued,     \* id -> the code sent for it, once sms_required was returned
    correct,    \* id -> verification requests that carried that code
    recorded    \* id -> push_to_monday calls that ran for that session

vars == <<sessions, uuids, today, last, before, issued, correct, recorded>>

EmptyStore == <<>>

NoRequest ==
    [op |-> "none", id |-> UnknownId, code |-> <<>>, form |-> <<>>, ip |-> NoIp,
     dup |-> "not asked", geo |-> "not asked", twilio |-> "not asked",
     resp |-> [status |-> "none"], calls |-> <<>>, pushes |-> <<>>,
     verdict |-> NoVerdict, matched |-> FALSE]

Init ==
    /\ sessions = EmptyStore
    /\ uuids = 0
    /\ today \in Todays
    /\ last = NoRequest
    /\ before = EmptyStore
    /\ issued = <<>>
    /\ correct = <<>>
    /\ recorded = <<>>

\* No request is being answered: the event loop is free to take the next.
Idle == last.op = "none"

Called(calls, fn) == \E i \in DOMAIN calls : calls[i].fn = fn

\* Number of calls in pushes whose body ran (arguments bound).
RECURSIVE RanCount(_)
RanCount(pushes) ==
    IF pushes = <<>> THEN 0
    ELSE (IF pushes[1].raised THEN 0 ELSE 1) + RanCount(Tail(pushes))

\* The collaborator answers of one request.  An answer is drawn only for a
\* call the handler makes: the request is first run with every answer at its
\* default, and the answers of the calls it reached are then varied in the
\* order the handler asks for them.
DefaultEnv(uuid) ==
    [dup |-> FALSE, coords |-> NoCoords, ip_data |-> <<>>, code |-> Code1000,
     uuid |-> uuid, twilio |-> TRUE, gpt |-> TRUE]

SmsEnvs(form_data, ip_address, env, day, store) ==
    LET out == process_qualification_submission_from_form(form_data, ip_address, env, day, store)
    IN  IF ~Called(out.calls, "send_verification_sms") THEN {env}
        ELSE {[env EXCEPT !.code = code, !.twilio = twilio, !.ip_data = ip_data] :
                 code \in Codes, twilio \in BOOLEAN,
                 ip_data \in IF Called(out.calls, "get_location_from_ip")
                             THEN IpAnswers ELSE {<<>>}}

GeoEnvs(form_data, ip_address, env, day, store) ==
    LET out == process_qualification_submission_from_form(form_data, ip_address, env, day, store)
    IN  IF ~Called(out.calls, "get_coords_from_city_state") THEN {env}
        ELSE UNION {SmsEnvs(form_data, ip_address, [env EXCEPT !.coords = coords], day, store) :
                       coords \in GeoAnswers}

Envs(form_data, ip_address, uuid, day, store) ==
    LET env == DefaultEnv(uuid)
        out == process_qualification_submission_from_form(form_data, ip_address, env, day, store)
    IN  IF ~Called(out.calls, "check_duplicate_email") THEN {env}
        ELSE {[env EXCEPT !.dup = TRUE]} \cup GeoEnvs(form_data, ip_address, env, day, store)

\* One run of process_qualification_submission_from_form on the submission
\* sub with the collaborator answers env; `seen` holds what else the request
\* record keeps of the collaborators.
SubmitRequest(sub, env, seen) ==
    \E out \in {process_qualification_submission_from_form(
                    sub[1], sub[2], env, today, sessions)} :
        LET form_data == sub[1]
            ip_address == sub[2]
            dup == env.dup
            code == env.code
            twilio == env.twilio
            asked_dup == Called(out.calls, "check_duplicate_email")
            asked_sms == Called(out.calls, "send_verification_sms")
            pending == out.resp.status = "sms_required"
        IN  /\ asked_sms => uuids < MaxIds
            /\ sessions' = out.sessions
            /\ uuids' = IF asked_sms THEN uuids + 1 ELSE uuids
            /\ issued' = IF pending THEN Put(issued, env.uuid, code) ELSE issued
            /\ correct' = IF pending THEN Put(correct, env.uuid, 0) ELSE correct
            /\ recorded' = IF pending THEN Put(recorded, env.uuid, 0) ELSE recorded
            /\ before' = sessions
            /\ last' = seen @@
                       [op |-> "submit",
                        id |-> IF asked_sms THEN env.uuid ELSE UnknownId,
                        code |-> IF asked_sms THEN code ELSE <<>>,
                        form |-> form_data, ip |-> ip_address,
                        dup |-> IF ~asked_dup THEN "not asked" ELSE IF dup THEN "hit" ELSE "miss",
                        geo |-> IF ~Called(out.calls, "get_coords_from_city_state") THEN "not asked"
                                ELSE IF env.coords = NoCoords THEN "nothing" ELSE "found",
                        twilio |-> IF ~asked_sms THEN "not asked" ELSE IF twilio THEN "sent" ELSE "failed",
                        resp |-> out.resp, calls |-> out.calls, pushes |-> out.pushes,
                        verdict |-> out.verdict, matched |-> FALSE]
            /\ UNCHANGED today

\* main.py 444-600: one call process_qualification_submission_from_form(
\* form_data, ip_address), for a submission drawn from `submissions`.
SubmitFormOf(submissions) ==
    /\ Idle
    /\ \E sub \in submissions :
        \E env \in Envs(sub[1], sub[2], uuids + 1, today, sessions) :
            SubmitRequest(sub, env, <<>>)

SubmitForm == SubmitFormOf(Submissions)

\* app.py 201-261: one call of verify_code (POST /verify_code).
VerifyCode ==
    /\ Idle
    /\ \E submission_id \in 0..MaxIds, code \in SubmittedCodes :
      \E out \in {verify_code(submission_id, code, sessions)} :
        LET known == submission_id \in DOMAIN issued
        IN  /\ (known /\ code = issued[submission_id]) => correct[submission_id] < MaxCorrect
            /\ sessions' = out.sessions
            /\ correct' = IF known /\ code = issued[submission_id]
                          THEN [correct EXCEPT ![submission_id] = @ + 1]
                          ELSE correct
            /\ recorded' = IF known
                           THEN [recorded EXCEPT ![submission_id] = @ + RanCount(out.pushes)]
                           ELSE recorded
            /\ before' = sessions
            /\ last' = [op |-> "verify", id |-> submission_id, code |-> code,
                        form |-> <<>>, ip |-> NoIp,
                        dup |-> "not asked", geo |-> "not asked", twilio |-> "not asked",
                        resp |-> out.resp, calls |-> <<>>, pushes |-> out.pushes,
                        verdict |-> NoVerdict, matched |-> out.matched]
            /\ UNCHANGED <<uuids, today, issued>>

\* The response of the request in `last` is sent and the request is over.
Respond ==
    /\ ~Idle
    /\ last' = NoRequest
    /\ before' = EmptyStore
    /\ UNCHANGED <<sessions, uuids, today, issued, correct, recorded>>

\* The first specification: calls of the submission function (main.py
\* 444-600) and of verify_code (app.py 201-261) on the store they share.
Next ==
    \/ SubmitForm
    \/ VerifyCode
    \/ Respond

Spec == Init /\ [][Next]_vars

---------------------------------------------------------------------------
(* The chatbot next to the form: the second specification                  *)

\* Chatbot sessions that may be open at a time.
MaxChats == 1

\* What a visitor types before the questions start: a text with a trigger
\* word that ends in a no-break space, and one without.
Greetings == {<<" ", "Y", "e", "s", ",", " ", "p", "l", "e", "a", "s", "e", " ">>, <<"h", "i">>}

\* What a visitor answers to each question.
AnswersTo ==
    [name |-> {<<"A", "l", " ", "L", "i">>},
     email |-> {BaseForm.email, <<"a", "l", ".", "i", "o">>},
     phone |-> {BaseForm.phone, BaseForm.email, <<"5", "5", "5">>},
     dob |-> {BaseForm.dob, <<"1", "0", "/", "3", "0", "/", "2", "0", "0", "8">>},
     city_state |-> {BaseForm.city_state},
     tbi_year |-> {<<"y", "e", "s">>},
     memory_issues |-> {<<"y", "e", "s">>},
     english_fluent |-> {<<"y", "e", "s">>},
     handedness |-> {<<"l", "e", "f", "t">>},
     can_exercise |-> {<<"y", "e", "s">>, <<"n", "o">>},
     can_mri |-> {<<"y", "e", "s">>},
     future_study_consent |-> {<<"y", "e", "s">>, <<"n", "o">>},
     study_interest_keywords |-> {<<"T", "B", "I">>}]

\* What a visitor types once the questions are over: a code, or a phone
\* number.
CodeTexts == SubmittedCodes \cup {BaseForm.phone}

IsChatSession(session_id, store) ==
    session_id \in DOMAIN store /\ "step" \in DOMAIN store[session_id]

ChatTexts(session_id, store) ==
    IF ~IsChatSession(session_id, store) THEN {<<"h", "i">>}
    ELSE IF store[session_id].step = -1 THEN Greetings
    ELSE IF store[session_id].step = Len(questions) THEN CodeTexts
    ELSE AnswersTo[questions[store[session_id].step + 1]]

\* The client address comes with the first message.
ChatIps(session_id, store) ==
    IF IsChatSession(session_id, store) /\ store[session_id].step = -1
    THEN {NoIp, Ip1} ELSE {NoIp}

\* Geocoder answers of the chatbot requests.
ChatGeoAnswers == {NoCoords, Newark, Philadelphia}

\* The collaborator answers of one chatbot request: drawn for the calls the
\* handler makes.
ChatEnvs(session_id, user_input, ip_address, day, store) ==
    LET env == DefaultEnv(UnknownId)
        out == handle_input(session_id, user_input, ip_address, env, day, store)
    IN  IF Called(out.calls, "check_duplicate_email")
        THEN {env, [env EXCEPT !.dup = TRUE]}
        ELSE IF Called(out.calls, "send_verification_sms")
        THEN {env, [env EXCEPT !.twilio = FALSE]}
        ELSE IF Called(out.calls, "ask_gpt")
        THEN {env, [env EXCEPT !.gpt = FALSE]}
        ELSE IF Called(out.calls, "get_coords_from_city_state")
        THEN {[env EXCEPT !.coords = coords, !.ip_data = ip_data] :
                 coords \in ChatGeoAnswers,
                 ip_data \in IF Truthy(store[session_id].ip)
                             THEN IpAnswers ELSE {<<>>}}
        ELSE {env}

\* The forms submitted next to the chatbot: all criteria met, and two unmet
\* without consent.
ChatSubmissions ==
    { <<BaseForm, NoIp>>,
      <<WithConsent(Override(BaseForm, TwoReasons), <<"n", "o">>), NoIp>> }

\* main.start_session
StartSession ==
    /\ Idle
    /\ uuids < MaxIds
    /\ Cardinality({id \in DOMAIN sessions : IsChatSession(id, sessions)}) < MaxChats
    /\ \E code \in Codes :
        /\ sessions' = start_session(uuids + 1, code, sessions)
        /\ uuids' = uuids + 1
        /\ before' = sessions
        /\ last' = [op |-> "start", id |-> uuids + 1, code |-> code,
                    form |-> <<>>, ip |-> NoIp,
                    dup |-> "not asked", geo |-> "not asked", twilio |-> "not asked",
                    resp |-> uuids + 1, calls |-> <<>>, pushes |-> <<>>,
                    verdict |-> NoVerdict, matched |-> FALSE]
        /\ UNCHANGED <<today, issued, correct, recorded>>

\* main.handle_input
HandleInput ==
    /\ Idle
    /\ \E session_id \in 0..MaxIds :
      \E user_input \in ChatTexts(session_id, sessions),
         ip_address \in ChatIps(session_id, sessions) :
       \E env \in ChatEnvs(session_id, user_input, ip_address, today, sessions) :
        \E out \in {handle_input(session_id, user_input, ip_address, env, today, sessions)} :
            /\ sessions' = out.sessions
            /\ before' = sessions
            /\ last' = [op |-> "chat", id |-> session_id, code |-> user_input,
                        form |-> <<>>, ip |-> ip_address,
                        dup |-> IF ~Called(out.calls, "check_duplicate_email") THEN "not asked"
                                ELSE IF env.dup THEN "hit" ELSE "miss",
                        geo |-> IF ~Called(out.calls, "get_coords_from_city_state") THEN "not asked"
                                ELSE IF env.coords = NoCoords THEN "nothing" ELSE "found",
                        twilio |-> IF ~Called(out.calls, "send_verification_sms") THEN "not asked"
                                   ELSE IF env.twilio THEN "sent" ELSE "failed",
                        resp |-> out.resp, calls |-> out.calls, pushes |-> out.pushes,
                        verdict |-> out.verdict,
                        matched |-> /\ IsChatSession(session_id, sessions)
                                    /\ sessions[session_id].step = Len(questions)
                                    /\ sessions[session_id].verified
                                    /\ Strip(user_input) = sessions[session_id].code]
            /\ UNCHANGED <<uuids, today, issued, correct, recorded>>

ChatSubmitForm == SubmitFormOf(ChatSubmissions)

NextChat ==
    \/ StartSession
    \/ HandleInput
    \/ ChatSubmitForm
    \/ VerifyCode
    \/ Respond

SpecChat == Init /\ [][NextChat]_vars

---------------------------------------------------------------------------
(* Progress: the third specification                                       *)

\* The store only changes inside a request: `sessions` (main.py 29) is
\* written by the form function (571, 589), by the chatbot and by verify_code
\* (app.py 232); no timer, sweep or lazy check removes an entry.  Every
\* request is answered; nothing obliges a client to send one.
NextLive ==
    \/ ChatSubmitForm
    \/ VerifyCode
    \/ Respond

SpecLive ==
    /\ Init
    /\ [][NextLive]_vars
    /\ WF_vars(Respond)

---------------------------------------------------------------------------
(* The form path with the duplicate check run against a board: the fourth  *)
(* specification                                                           *)

OtherEmail == <<"b", "o", "@", "x", ".", "i", "o">>

\* An item whose email column holds the address of BaseForm in capitals.
ItemHit ==
    <<[id |-> "phone", text |-> BaseForm.phone],
      [id |-> "email", text |-> <<"A", "L", "@", "X", ".", "I", "O">>]>>

\* An item of somebody else that mentions the address in another column.
ItemMiss ==
    <<[id |-> "email", text |-> OtherEmail],
      [id |-> "text", text |-> BaseForm.email]>>

\* An item whose email column is empty on the board (a null text).
ItemNull == <<[id |-> "email", text |-> None]>>

HitPage == [kind |-> "items", items |-> <<ItemMiss, ItemHit>>]

MissPage == [kind |-> "items", items |-> <<ItemMiss>>]

NullPage == [kind |-> "items", items |-> <<ItemNull, ItemHit>>]

HttpErrorPage == [kind |-> "http_error"]

BrokenPage == [kind |-> "exception"]

\* The pages whose query or scan fails.
FailingPages == {HttpErrorPage, BrokenPage, NullPage}

Pages == {HitPage, MissPage, NoItems} \cup FailingPages

MissPages(n) == [i \in 1..n |-> MissPage]

\* Boards of one page, of two, and boards around the page limit.
Boards ==
    {<<page>> : page \in Pages}
    \cup {<<MissPage, page>> : page \in Pages}
    \cup {<<NoItems, HitPage>>, <<HitPage, HttpErrorPage>>}
    \cup {MissPages(page_limit - 1) \o <<page>> : page \in {HitPage, HttpErrorPage}}
    \cup {MissPages(page_limit) \o <<page>> : page \in {HitPage, HttpErrorPage}}

\* main.py 492-493: the handler asks check_duplicate_email about the address
\* of the form and goes on with its answer.
SubmitCheckedForm ==
    /\ Idle
    /\ \E sub \in ChatSubmissions, board \in Boards :
        \E dup \in {check_duplicate_email(Get(FormData(sub[1], sub[2]), "email", <<>>), board)} :
            \E env \in {e \in Envs(sub[1], sub[2], uuids + 1, today, sessions) : e.dup = dup} :
                SubmitRequest(sub, env, [board |-> board])

NextDup ==
    \/ SubmitCheckedForm
    \/ Respond

SpecDup == Init /\ [][NextDup]_vars

---------------------------------------------------------------------------
(* Submissions with several client addresses: the seventh                  *)
(* specification                                                           *)

Ip2 == <<"1", "9", "8", ".", "5", "1", ".", "1", "0", "0", ".", "9">>

\* The ip_address argument of a submission: none, or one of two addresses.
IpAddresses == {NoIp, Ip1, Ip2}

\* How many submissions may be pending when a further one is made.
MaxAddressed == 1

\* main.py 444-600: a submission with a client address as ip_address; the
\* request record keeps the collaborator answers of the run.
SubmitFromAddress ==
    /\ Idle
    /\ uuids < MaxAddressed
    /\ \E form_data \in Forms, ip_address \in IpAddresses :
        \E env \in Envs(form_data, ip_address, uuids + 1, today, sessions) :
            SubmitRequest(<<form_data, ip_address>>, env, [env |-> env])

NextIp ==
    \/ SubmitFromAddress
    \/ Respond

SpecIp == Init /\ [][NextIp]_vars

---------------------------------------------------------------------------
(* The rule evaluator.  configs/study_concord_stonybrook.py declares its   *)
(* rules as data (QUALIFICATION_RULES); the function that interprets a     *)
(* rule list is not part of main.py, whose evaluation is written out for   *)
(* one study (Evaluate above).  The interpreter is modelled from section   *)
(* 4.2 of the specification: evaluate(rules, answers, derivedFacts).       *)

NotApplicable == <<"N", "o", "t", " ", "A", "p", "p", "l", "i", "c", "a", "b", "l", "e">>

\* configs/study_concord_stonybrook.py 43-68.  A dict is a record with the
\* keys the source gives it.
QUALIFICATION_RULES ==
    <<[field |-> "age", operator |-> "greater_than_or_equal", value |-> MIN_AGE,
       type |-> "age", disqual_message |-> "you are under 18 years old"],
      [field |-> "distance", operator |-> "less_than_or_equal", value |-> "threshold",
       type |-> "distance",
       disqual_message |-> "you are located outside the eligible distance from our research site"],
      [field |-> "previous_bupropion", operator |-> "equals", value |-> No,
       disqual_message |-> "you have previously been treated with bupropion"],
      [field |-> "current_depression_medication", operator |-> "equals", value |-> No,
       disqual_message |-> "you are currently taking antidepressant medication"],
      [field |-> "untreatable_cancer", operator |-> "equals", value |-> No,
       disqual_message |-> "you have untreatable cancer"],
      [field |-> "liver_disease", operator |-> "equals", value |-> No,
       disqual_message |-> "you suffer from liver disease"],
      [field |-> "seizure_disorder", operator |-> "equals", value |-> No,
       disqual_message |-> "you have a seizure disorder"],
      [field |-> "dialysis", operator |-> "equals", value |-> No,
       disqual_message |-> "you are currently receiving hemodialysis or peritoneal dialysis"],
      [field |-> "current_depression_therapy", operator |-> "equals", value |-> No,
       disqual_message |-> "you are currently receiving therapy for depression"],
      [field |-> "ckd_gfr", operator |-> "equals", value |-> Yes,
       disqual_message |-> "you do not have chronic kidney disease (CKD) at the required stage or a kidney transplant with the specified GFR",
       rule_id |-> "ckd_main_check"],
      [field |-> "kidney_transplant_6months", operator |-> "equals", value |-> Yes,
       disqual_message |-> "your kidney transplant has not been at least 6 months ago",
       depends_on |-> [rule_id |-> "ckd_main_check", value_of |-> "ckd_gfr", is |-> Yes,
                       skip_if_field |-> "kidney_transplant_6months",
                       skip_value |-> NotApplicable]],
      [field |-> "gfr_less_45", operator |-> "equals", value |-> Yes,
       disqual_message |-> "your most recent kidney filtration rate (GFR) is not less than 45",
       depends_on |-> [rule_id |-> "ckd_main_check", value_of |-> "ckd_gfr", is |-> Yes]]>>

\* The age of derivedFacts when the date of birth gave none.
NoAge == -1

RuleKind(rule) == Get(rule, "type", "comparison")

\* A variant that evaluates a conditional rule like any other.
RuleSkipped_IgnoresCondition(rule, answers) == FALSE

\* A variant that knows no skip value: only the controlling field decides.
RuleSkipped_NoSkipValue(rule, answers) ==
    /\ "depends_on" \in DOMAIN rule
    /\ Get(answers, rule.depends_on.value_of, None) # rule.depends_on.is

\* Step 1: the rule carries a condition, and the controlling field does not
\* hold the required value or the rule's own field holds the skip value.
RuleSkipped(rule, answers) ==
    /\ "depends_on" \in DOMAIN rule
    /\ \/ Get(answers, rule.depends_on.value_of, None) # rule.depends_on.is
       \/ /\ "skip_value" \in DOMAIN rule.depends_on
          /\ Get(answers, rule.field, None) = rule.depends_on.skip_value

\* Whether the applicant coordinates are available.
CoordsKnown(derivedFacts) == derivedFacts.coords # NoCoords

\* Step 2: dispatch by rule kind.  A kind the evaluator does not know is
\* skipped, which leaves the rule satisfied.
RuleSatisfied(rule, answers, derivedFacts) ==
    CASE RuleKind(rule) = "age" ->
             derivedFacts.age # NoAge /\ derivedFacts.age >= rule.value
      [] RuleKind(rule) = "distance" ->
             /\ CoordsKnown(derivedFacts)
             /\ haversine_distance(derivedFacts.coords.latitude, derivedFacts.coords.longitude,
                                   CONCORD_COORDS.latitude, CONCORD_COORDS.longitude)
                    <= DISTANCE_THRESHOLD_MILES * 1000
      [] RuleKind(rule) = "comparison" ->
             CASE rule.operator = "equals" -> Get(answers, rule.field, None) = rule.value
               [] rule.operator = "not_equals" -> Get(answers, rule.field, None) # rule.value
               [] rule.operator = "in_list" ->
                      \E i \in DOMAIN rule.value : rule.value[i] = Get(answers, rule.field, None)
               [] OTHER -> TRUE
      [] OTHER -> TRUE

RuleFails(rule, answers, derivedFacts) ==
    ~RuleSkipped(rule, answers) /\ ~RuleSatisfied(rule, answers, derivedFacts)

\* The tag an unsatisfied rule contributes.
RuleTags(rule, derivedFacts) ==
    IF RuleKind(rule) # "distance" THEN <<>>
    ELSE IF CoordsKnown(derivedFacts) THEN <<"Too far">> ELSE <<"Location unknown">>

\* The reasons list is de-duplicated, keeping first occurrences in order.
RECURSIVE Dedupe(_)
Dedupe(seq) ==
    IF seq = <<>> THEN <<>>
    ELSE LET init == Dedupe(SubSeq(seq, 1, Len(seq) - 1))
             x == seq[Len(seq)]
         IN  IF \E i \in DOMAIN init : init[i] = x THEN init ELSE Append(init, x)

\* Steps 1 to 3 over the rules in declared order.
RECURSIVE EvaluateRules(_, _, _)
EvaluateRules(rules, answers, derivedFacts) ==
    IF rules = <<>> THEN [qualified |-> TRUE, reasons |-> <<>>, tags |-> <<>>]
    ELSE LET init == EvaluateRules(SubSeq(rules, 1, Len(rules) - 1), answers, derivedFacts)
             rule == rules[Len(rules)]
         IN  IF RuleFails(rule, answers, derivedFacts)
             THEN [qualified |-> FALSE,
                   reasons |-> Append(init.reasons, rule.disqual_message),
                   tags |-> init.tags \o RuleTags(rule, derivedFacts)]
             ELSE init

\* evaluate(rules, answers, derivedFacts) -> EligibilityVerdict
evaluate(rules, answers, derivedFacts) ==
    LET result == EvaluateRules(rules, answers, derivedFacts)
    IN  [evaluated |-> TRUE,
         qualified |-> result.qualified,
         reasons |-> Dedupe(result.reasons),
         tags |-> result.tags
                  \o (IF Get(answers, "handedness", None) = LeftHanded
                      THEN <<"Left-handed">> ELSE <<>>)]

---------------------------------------------------------------------------
(* The evaluation alone: the fifth specification                           *)

\* What a respondent may give for a yes/no question: a yes, a no, nothing.
EvalTexts == {<<"y", "e", "s">>, <<"N", "o">>, <<>>}

EvalHands == {<<"l", "e", "f", "t">>, <<"R", "i", "g", "h", "t">>, <<"b", "o", "t", "h">>}

\* Newark is within the threshold of the site, Philadelphia is not; one
\* point is at the threshold and one just beyond it.
EvalCoords == {Newark, Philadelphia, AtThreshold, JustBeyond}

EvalForms ==
    {[BaseForm EXCEPT !["tbi_year"] = a, !["memory_issues"] = b, !["english_fluent"] = c,
                      !["can_exercise"] = d, !["can_mri"] = e, !["handedness"] = h] :
        a \in EvalTexts, b \in EvalTexts, c \in EvalTexts, d \in EvalTexts,
        e \in EvalTexts, h \in EvalHands}
    \cup {[BaseForm EXCEPT !["can_exercise"] = d, !["handedness"] = h] :
            d \in {<<"Y", "e", "s">>, <<"y">>, <<"N", "o">>, <<" ", "n", " ">>},
            h \in {<<"l", "e", "f", "t">>, LeftHanded, <<"L", "E", "F", "T">>}}

\* main.py 460-462 and 505-530: the answers are normalized, the distance is
\* taken from the coordinates, and the verdict is computed; nothing else of
\* the handler runs.
EvaluateForm ==
    /\ Idle
    /\ \E form_data \in EvalForms, coords \in EvalCoords :
        LET data == FormData(form_data, NoIp)
            distance_ok == is_within_distance(coords.latitude, coords.longitude)
        IN  last' = [coords |-> coords] @@
                    [NoRequest EXCEPT !.op = "evaluate", !.form = form_data,
                                      !.verdict = Evaluate(data, distance_ok)]
    /\ before' = sessions
    /\ UNCHANGED <<sessions, uuids, today, issued, correct, recorded>>

\* Answers to the questions of the kidney study: the exclusion questions
\* answered "No" but for two, the three kidney questions varied, the
\* controlling one also empty and missing.
StudyAnswers ==
    LET base == [previous_bupropion |-> No, current_depression_medication |-> No,
                 untreatable_cancer |-> No, liver_disease |-> No, seizure_disorder |-> No,
                 dialysis |-> No, current_depression_therapy |-> No,
                 ckd_gfr |-> Yes, kidney_transplant_6months |-> Yes, gfr_less_45 |-> Yes]
        given == {[base EXCEPT !["previous_bupropion"] = a, !["liver_disease"] = b,
                               !["ckd_gfr"] = c, !["kidney_transplant_6months"] = d,
                               !["gfr_less_45"] = e] :
                     a \in {No, Yes}, b \in {No, Yes}, c \in {Yes, No, <<>>},
                     d \in {Yes, No, NotApplicable}, e \in {Yes, No}}
    IN  given \cup {Del(answers, "ckd_gfr") : answers \in {g \in given : g["ckd_gfr"] = No}}

StudyAges == {NoAge, 17, 30}

\* The site itself, a place beyond the threshold, and no geocoding result.
StudyCoords == {CONCORD_COORDS, Newark, NoCoords}

SharedMessage == "you have a condition that excludes you from this study"

\* A rule list in which two rules carry the same message.
SharedMessageRules ==
    <<[field |-> "previous_bupropion", operator |-> "equals", value |-> No,
       disqual_message |-> SharedMessage],
      QUALIFICATION_RULES[10],
      [field |-> "liver_disease", operator |-> "equals", value |-> No,
       disqual_message |-> SharedMessage]>>

\* The two conditional rules of the study without the rule on the field
\* that controls them.
ConditionalRules == <<QUALIFICATION_RULES[11], QUALIFICATION_RULES[12]>>

RuleLists == {QUALIFICATION_RULES, SharedMessageRules, ConditionalRules, <<>>}

\* One call of evaluate on a rule list, the normalized answers and the
\* derived facts.
EvaluateStudy ==
    /\ Idle
    /\ \E rules \in RuleLists, answers \in StudyAnswers, age \in StudyAges,
          coords \in StudyCoords :
        last' = [rules |-> rules, coords |-> coords, age |-> age] @@
                [NoRequest EXCEPT !.op = "evaluate_rules", !.form = answers,
                    !.verdict = evaluate(rules, answers, [age |-> age, coords |-> coords])]
    /\ before' = sessions
    /\ UNCHANGED <<sessions, uuids, today, issued, correct, recorded>>

NextEval ==
    \/ EvaluateForm
    \/ EvaluateStudy
    \/ Respond

SpecEval == Init /\ [][NextEval]_vars

---------------------------------------------------------------------------
(* The pure functions alone: the sixth specification                       *)

DigitChar(n) == <<"0", "1", "2", "3", "4", "5", "6", "7", "8", "9">>[n + 1]

\* The text "MM/DD/YYYY" of a month, a day and a year.
DobText(m, d, y) ==
    <<DigitChar(m \div 10), DigitChar(m % 10), "/",
      DigitChar(d \div 10), DigitChar(d % 10), "/",
      DigitChar(y \div 1000), DigitChar((y \div 100) % 10),
      DigitChar((y \div 10) % 10), DigitChar(y % 10)>>

\* What date.today() may return: an ordinary day, the leap day, and the days
\* around the end of February of a common year.
AgeTodays ==
    {[year |-> 2026, month |-> 10, day |-> 29], [year |-> 2024, month |-> 2, day |-> 29],
     [year |-> 2026, month |-> 2, day |-> 28], [year |-> 2026, month |-> 3, day |-> 1]}

AgeDays ==
    {<<10, 28>>, <<10, 29>>, <<10, 30>>, <<2, 28>>, <<2, 29>>, <<3, 1>>,
     <<1, 1>>, <<1, 2>>, <<12, 30>>, <<12, 31>>, <<9, 29>>, <<11, 29>>}

AgeYears == {2000, 2006, 2008, 2009}

\* Dates of birth as a respondent types them: padded, unpadded, and in a
\* format strptime does not accept.
AgeDobs ==
    {DobText(md[1], md[2], y) : md \in AgeDays, y \in AgeYears}
    \cup {<<"1", "/", "1", "/", "2", "0", "0", "8">>,
          <<"2", "0", "0", "8", "-", "1", "0", "-", "2", "9">>}

InitPure ==
    /\ sessions = EmptyStore
    /\ uuids = 0
    /\ today \in AgeTodays
    /\ last = NoRequest
    /\ before = EmptyStore
    /\ issued = <<>>
    /\ correct = <<>>
    /\ recorded = <<>>

\* main.py 96-111: one call of calculate_age on a date of birth, on the day
\* date.today() returns.
DeriveAge ==
    /\ Idle
    /\ \E dob \in AgeDobs :
        last' = [NoRequest EXCEPT !.op = "calculate_age", !.form = [dob |-> dob],
                                  !.resp = calculate_age(dob, today)]
    /\ before' = sessions
    /\ UNCHANGED <<sessions, uuids, today, issued, correct, recorded>>

\* What a respondent may type for a yes/no question.
RawYesNo ==
    {<<"y", "e", "s">>, <<"Y", "E", "S">>, <<"Y">>, <<" ", "y", "e", "s", " ">>,
     <<"\f", "y", "e", "s">>, <<"y", "e", "s", " ">>, <<"", "n">>, <<"Y", "É", "S">>,
     <<"n", "o">>, <<"N">>, <<" ", "n", " ">>, <<"m", "a", "y", "b", "e">>, <<>>}

RawHands ==
    {<<"l", "e", "f", "t">>, <<"L", "E", "F", "T", "Y">>, <<"R", "i", "g", "h", "t">>,
     <<"l", "e", "f", "t", " ", "o", "r", " ", "r", "i", "g", "h", "t">>,
     <<"r", "i", "g", "h", "t", ",", " ", "l", "e", "f", "t">>,
     <<"b", "o", "t", "h">>}

RawConsents ==
    {<<"y", "e", "s">>, <<"Y", "e", "s">>, <<"n", "o">>, <<"N", "O", " ">>,
     <<"", "N", "O">>, <<"y">>, <<"n">>, IConfirm}

\* Answers to a question of the kidney study that has a third option.
RawTernary ==
    {<<"y", "e", "s">>, <<"N", "o">>, <<"n", "/", "a">>, <<"N", "/", "A">>,
     <<"n", "o", "t", " ", "a", "p", "p", "l", "i", "c", "a", "b", "l", "e">>,
     NotApplicable}

\* Raw answer mappings: two yes/no questions, handedness, consent, a question
\* with a third option and a field of no family that holds "yes"; also
\* mappings that lack some of the keys, and the empty mapping.
RawAnswers ==
    LET full == {[tbi_year |-> a, can_mri |-> <<"Y", "e", "s">>, handedness |-> h,
                  future_study_consent |-> c, kidney_transplant_6months |-> k,
                  name |-> <<"y", "e", "s">>] :
                    a \in RawYesNo, h \in RawHands, c \in RawConsents, k \in RawTernary}
        mri == {[tbi_year |-> <<"n", "o">>, can_mri |-> a] : a \in RawYesNo}
    IN  full \cup mri \cup {<<>>}

\* main.py 164-201: one call of normalize_fields; `given` is the mapping
\* passed in and `form` is that mapping after the call, which works on
\* data.copy().
NormalizeAnswers ==
    /\ Idle
    /\ \E raw \in RawAnswers :
        last' = [given |-> raw] @@
                [NoRequest EXCEPT !.op = "normalize_fields", !.form = raw,
                                  !.resp = normalize_fields(raw)]
    /\ before' = sessions
    /\ UNCHANGED <<sessions, uuids, today, issued, correct, recorded>>

\* configs/study_concord_stonybrook.py 94
CONCORD_ALLOWED_TAGS == <<"Too far", "Stony Brook Study", "fraudulent">>

\* Tag lists of a session: those the evaluation of main.py produces, and
\* lists with a tag of another study or of none.
TagLists ==
    {<<>>, <<"Too far">>, <<"Left-handed">>, <<"Too far", "Left-handed">>,
     <<"Left-handed", "Stony Brook Study", "Too far">>,
     <<"Location unknown", "Left-handed">>}

\* The answers handed to the recorder: those of the form, with the keywords
\* absent, given, or null.
RecordedData ==
    {FormData(BaseForm, NoIp),
     Put(FormData(BaseForm, NoIp), "study_interest_keywords", <<"T", "B", "I">>),
     Put(FormData(BaseForm, NoIp), "study_interest_keywords", None)}

\* push_to_monday.py 16-137: one call of push_to_monday with all its
\* arguments; the request record keeps the mappings and the vocabulary.
RecordOutcome ==
    /\ Idle
    /\ \E tags \in TagLists, qualified \in BOOLEAN,
          mappings \in {MONDAY_COLUMN_MAPPINGS, MappingsWithDropdown},
          allowed \in {MONDAY_DROPDOWN_ALLOWED_TAGS, CONCORD_ALLOWED_TAGS},
          data \in RecordedData :
        last' = [mappings |-> mappings, allowed |-> allowed] @@
                [NoRequest EXCEPT
                    !.op = "push_to_monday",
                    !.pushes = <<push_to_monday("direct",
                                    <<data, GroupOf(qualified), qualified,
                                      tags, "", MONDAY_BOARD_ID, mappings, allowed>>)>>]
    /\ before' = sessions
    /\ UNCHANGED <<sessions, uuids, today, issued, correct, recorded>>

NextPure ==
    \/ DeriveAge
    \/ NormalizeAnswers
    \/ RecordOutcome
    \/ Respond

SpecPure == InitPure /\ [][NextPure]_vars

---------------------------------------------------------------------------
(* Vocabulary of the claims                                                *)

Submitted == last.op = "submit"

Verified == last.op = "verify"

\* The answers as the orchestrator sees them (normalized, with the address).
LastData == FormData(last.form, last.ip)

\* The request was a verification request carrying the code stored in the
\* session it names.
CodeMatched ==
    /\ Verified
    /\ last.id \in DOMAIN before
    /\ last.code = before[last.id]["code"]

\* The push_to_monday calls of the request whose body ran.
RanPushes == SelectSeq(last.pushes, LAMBDA p : ~p.raised)

\* Forms that fail structural validation as the specification lists it: bad
\* email shape, bad phone shape, missing or unparseable date of birth,
\* missing location text.
MalformedOverrides ==
    { [email |-> <<"a", "l", ".", "i", "o">>],
      [phone |-> <<"5", "5", "5", "1", "2", "3", "4", "5", "6">>],
      [dob |-> <<>>],
      [dob |-> <<"1", "3", "/", "0", "1", "/", "2", "0", "0", "0">>],
      [city_state |-> <<>>] }

Malformed(form) ==
    \E o \in MalformedOverrides : \A k \in DOMAIN o : k \in DOMAIN form /\ form[k] = o[k]

ValidationMessages ==
    {MsgInvalidEmail, MsgInvalidPhone, MsgDobMissing, MsgDobFormat, MsgCityMissing}

\* The request carried the code stored in the session it names: a
\* verification request, or a chatbot message once the code was sent.
CodeEqualled ==
    \/ CodeMatched
    \/ /\ last.op = "chat"
       /\ IsChatSession(last.id, before)
       /\ before[last.id].step = Len(questions)
       /\ before[last.id].verified
       /\ Strip(last.code) = before[last.id].code

\* The call sites of push_to_monday that file a duplicate.
DuplicateSites == {"form_duplicate", "chat_duplicate"}

---------------------------------------------------------------------------
(* Claims                                                                  *)

\* C1: a verification request whose code equals the code stored in the
\* session invokes the recorder exactly once, with the data, routing bucket,
\* qualified flag and tags stored in that session, and afterwards the session
\* is gone from the store.
C1_MatchRecordsOnceThenDeletes ==
    CodeMatched =>
        /\ Len(last.pushes) = 1
        /\ Len(RanPushes) = 1
        /\ RanPushes[1].data = before[last.id]["data"]
        /\ RanPushes[1].group_id = before[last.id]["group"]
        /\ RanPushes[1].qualified = before[last.id]["qualified"]
        /\ RanPushes[1].tags = before[last.id]["tags"]
        /\ last.id \notin DOMAIN sessions

\* C2: once two verification requests have carried the code sent for a
\* session, the recorder has run exactly once for that session.
C2_TwoCorrectAttemptsRecordOnce ==
    \A id \in DOMAIN correct : correct[id] >= 2 => recorded[id] = 1

\* C3: on the form path and on the chatbot path, push_to_monday is called
\* for a submission that is not a duplicate only in a request whose code
\* equalled the code stored in the session, and only with a qualified verdict
\* or with future_study_consent "I, confirm"; a form submission calls it for
\* duplicates only.
C3_RecordingOnlyAfterCodeMatch ==
    \A i \in DOMAIN last.pushes :
        /\ Submitted => last.pushes[i].site = "form_duplicate"
        /\ last.pushes[i].site \notin DuplicateSites =>
            /\ CodeEqualled
            /\ \/ last.pushes[i].qualified
               \/ Get(last.pushes[i].data, "future_study_consent", None) = IConfirm

C3_Witness ==
    /\ last.op = "chat"
    /\ CodeEqualled
    /\ Len(last.pushes) = 1
    /\ last.pushes[1].site = "chat_final"
    /\ ~last.pushes[1].qualified
    /\ Get(last.pushes[1].data, "future_study_consent", None) = IConfirm

\* C4: a submission evaluated as qualified always goes to verification: the
\* code is sent, and when it is delivered the response is sms_required and
\* the session stored under the returned id is filed under the qualified
\* group, whatever future_study_consent says.
C4_QualifiedRequiresVerification ==
    (Submitted /\ last.verdict.evaluated /\ last.verdict.qualified) =>
        /\ Called(last.calls, "send_verification_sms")
        /\ last.twilio = "sent" =>
            /\ last.resp.status = "sms_required"
            /\ last.resp.submission_id \in DOMAIN sessions
            /\ last.resp.submission_id \notin DOMAIN before
            /\ sessions[last.resp.submission_id]["group"] = QUALIFIED_GROUP_ID
            /\ sessions[last.resp.submission_id]["qualified"]

C4_Witness ==
    /\ Submitted /\ last.verdict.evaluated /\ last.verdict.qualified
    /\ LastData["future_study_consent"] = IDoNotConfirm
    /\ last.resp.status = "sms_required"
    /\ sessions[last.resp.submission_id]["group"] = QUALIFIED_GROUP_ID

\* C5: a submission evaluated as not qualified whose normalized
\* future_study_consent is "I, confirm" goes to verification, nothing is
\* recorded during the submission, and the stored session is filed under the
\* disqualified group.
C5_ConsentedRequiresVerification ==
    (/\ Submitted /\ last.verdict.evaluated /\ ~last.verdict.qualified
     /\ LastData["future_study_consent"] = IConfirm) =>
        /\ Called(last.calls, "send_verification_sms")
        /\ last.pushes = <<>>
        /\ last.twilio = "sent" =>
            /\ last.resp.status = "sms_required"
            /\ last.resp.submission_id \in DOMAIN sessions
            /\ sessions[last.resp.submission_id]["group"] = DISQUALIFIED_GROUP_ID
            /\ ~sessions[last.resp.submission_id]["qualified"]

C5_Witness ==
    /\ Submitted /\ last.verdict.evaluated /\ ~last.verdict.qualified
    /\ LastData["future_study_consent"] = IConfirm
    /\ last.resp.status = "sms_required"
    /\ sessions[last.resp.submission_id]["group"] = DISQUALIFIED_GROUP_ID

\* C6: a submission evaluated as not qualified without future-contact
\* consent ends with disqualified_no_capture; no session is created, no code
\* is sent, the recorder is not invoked and the store is as it was.
C6_DisqualifiedFinalTouchesNothing ==
    (/\ Submitted /\ last.verdict.evaluated /\ ~last.verdict.qualified
     /\ LastData["future_study_consent"] # IConfirm) =>
        /\ last.resp.status = "disqualified_no_capture"
        /\ last.resp.message = DisqualifiedMessage(last.verdict.reasons)
        /\ ~Called(last.calls, "send_verification_sms")
        /\ ~Called(last.calls, "push_to_monday")
        /\ last.pushes = <<>>
        /\ last.id = UnknownId
        /\ sessions = before

C6_Witness ==
    /\ Submitted /\ last.verdict.evaluated /\ ~last.verdict.qualified
    /\ LastData["future_study_consent"] = IDoNotConfirm
    /\ last.resp.status = "disqualified_no_capture"
    /\ before # EmptyStore
    /\ sessions = before

\* C7: on a duplicate hit the submission returns Duplicate, and geocoding,
\* rule evaluation, session creation and code sending do not happen.
C7_DuplicateShortCircuits ==
    (Submitted /\ last.dup = "hit") =>
        /\ last.resp.status = "duplicate"
        /\ ~Called(last.calls, "get_coords_from_city_state")
        /\ ~last.verdict.evaluated
        /\ ~Called(last.calls, "send_verification_sms")
        /\ sessions = before

\* C8: on a duplicate hit the response is the Duplicate outcome whatever
\* becomes of the best-effort recording: also when that call raises.
C8_DuplicateResponseIgnoresRecording ==
    (Submitted /\ last.dup = "hit" /\ Len(last.pushes) = 1) =>
        last.resp = [status |-> "duplicate", message |-> MsgDuplicate]

\* C9: a malformed submission is rejected with the validation message and no
\* later step runs: no duplicate check, geocoding, SMS or recording, and the
\* store is as it was.
C9_MalformedIsRejectedFirst ==
    (Submitted /\ Malformed(last.form)) =>
        /\ last.resp.status = "error"
        /\ last.resp.message \in ValidationMessages
        /\ last.calls = <<>>
        /\ last.pushes = <<>>
        /\ ~last.verdict.evaluated
        /\ sessions = before

C9_Witness ==
    /\ Submitted /\ Malformed(last.form)
    /\ last.resp = ErrorResponse(MsgInvalidPhone)
    /\ before # EmptyStore
    /\ sessions = before

\* C10: when the code cannot be sent the submission returns the SMS error
\* and the store is what it was before the call: the session just stored is
\* removed, no other session changes, nothing is recorded.
C10_SmsFailureRestoresStore ==
    (Submitted /\ last.twilio = "failed") =>
        /\ last.resp = ErrorResponse(MsgSmsFailed(MsgTwilioFailed))
        /\ last.id \notin DOMAIN sessions
        /\ sessions = before
        /\ last.pushes = <<>>

C10_Witness ==
    /\ Submitted /\ last.twilio = "failed"
    /\ before # EmptyStore
    /\ last.id \notin DOMAIN sessions
    /\ sessions = before

\* C11: a verification request on a stored session with a code other than
\* the stored one answers invalid_code, leaves every session as it was,
\* calls no recorder, and the stored code still matches afterwards.
C11_WrongCodeChangesNothing ==
    (Verified /\ last.id \in DOMAIN before /\ last.code # before[last.id]["code"]) =>
        /\ last.resp = [status |-> "invalid_code", message |-> MsgInvalidCode]
        /\ ~last.matched
        /\ sessions = before
        /\ last.pushes = <<>>
        /\ verify_code(last.id, before[last.id]["code"], sessions).matched

C11_Witness ==
    /\ Verified /\ last.id \in DOMAIN before /\ last.code # before[last.id]["code"]
    /\ \E other \in DOMAIN before : other # last.id
    /\ sessions = before
    /\ last.resp.status = "invalid_code"

\* The number of verification requests before the one in `last` that carried
\* the code sent for session id.
MatchedEarlier(id) ==
    IF id \notin DOMAIN correct THEN 0
    ELSE correct[id] - (IF Verified /\ last.id = id /\ last.code = issued[id] THEN 1 ELSE 0)

\* C12: a verification request that names an id no pending session was
\* stored under, or an id whose code was already matched by an earlier
\* request, answers "session not found" whatever code it carries, calls no
\* recorder and leaves the store unchanged.
C12_UnknownOrCompletedIsNotFound ==
    (Verified /\ (last.id \notin DOMAIN issued \/ MatchedEarlier(last.id) >= 1)) =>
        /\ last.resp = ErrorResponse(MsgSessionNotFound)
        /\ last.pushes = <<>>
        /\ sessions = before

\* C14: every session in the store holds every field the verification
\* request reads when the code matches: the code, the answers ("data"), the
\* routing bucket ("group"), the verdict ("qualified"), the tags, the
\* address text, the recording flag and the board handle.
C14_SessionHoldsWhatVerifyReads ==
    \A id \in DOMAIN sessions :
        /\ "code" \in DOMAIN sessions[id]
        /\ "push_to_monday_flag" \in DOMAIN sessions[id]
        /\ \A i \in DOMAIN VerifyReads : VerifyReads[i] \in DOMAIN sessions[id]

\* The statuses of the confirmation page a completed verification redirects
\* to (app.py 245-248).
ConfirmationStatuses == {"qualified", "disqualified_no_capture"}

\* C16: a request whose code matched completes whatever the recorder
\* answers, a reported failure included: the session is deleted, the user is
\* sent to the confirmation, and the recorder is called at most once (no
\* retry).
C16_MatchCompletesWhateverRecorderSays ==
    CodeMatched =>
        /\ last.id \notin DOMAIN sessions
        /\ last.resp.status \in ConfirmationStatuses
        /\ Len(last.pushes) <= 1

\* C13: every session that is stored is eventually removed from the
\* store, whether or not a request ever carries its code.
C13_EverySessionEventuallyRemoved ==
    \A id \in 1..MaxIds : (id \in DOMAIN sessions) ~> (id \notin DOMAIN sessions)

\* The message of the distance rule (main.py 523).
DistanceReason == "you are located outside the eligible distance from our research site"

InSeq(x, seq) == \E i \in DOMAIN seq : seq[i] = x

Occurrences(x, seq) == Cardinality({i \in DOMAIN seq : seq[i] = x})

\* C15: a submission whose location the geocoder cannot resolve is not
\* rejected: it is evaluated, the verdict is not qualified, carries the tag
\* "Location unknown" and not "Too far", lists the distance message exactly
\* once, and the outcome follows the consent answer.
C15_NoCoordinatesIsEvaluated ==
    (Submitted /\ last.geo = "nothing") =>
        /\ last.verdict.evaluated
        /\ ~last.verdict.qualified
        /\ InSeq("Location unknown", last.verdict.tags)
        /\ ~InSeq("Too far", last.verdict.tags)
        /\ Occurrences(DistanceReason, last.verdict.reasons) = 1
        /\ last.resp.status = IF Get(LastData, "future_study_consent", None) = IConfirm
                              THEN "sms_required" ELSE "disqualified_no_capture"

\* The duplicate check met a failure: one of the first page_limit queries
\* failed and every page before it listed other people only.
FailureReached(board) ==
    \E k \in DOMAIN board :
        /\ k <= page_limit
        /\ board[k] \in FailingPages
        /\ \A j \in 1..(k - 1) : board[j] = MissPage

\* What a request leaves behind: response, calls, pushes, verdict, store.
LastOutcome == Outcome(last.resp, last.calls, last.pushes, last.verdict, sessions)

\* The outcomes of the submission in `last` when the duplicate check answers
\* "not a duplicate".
NonDuplicateOutcomes ==
    {process_qualification_submission_from_form(last.form, last.ip, env, today, before) :
        env \in {e \in Envs(last.form, last.ip, uuids, today, before) : ~e.dup}}

\* C17: when a page query of the duplicate check fails, with an HTTP error
\* or any other exception, the check answers "not a duplicate" and the
\* submission goes on as that of a new address does: no duplicate response,
\* the geocoder is asked next.
C17_FailedDuplicateCheckLetsThrough ==
    (Submitted /\ FailureReached(last.board)) =>
        /\ ~check_duplicate_email(Get(LastData, "email", <<>>), last.board)
        /\ last.dup = "miss"
        /\ LastOutcome \in NonDuplicateOutcomes
        /\ Called(last.calls, "get_coords_from_city_state")
        /\ last.pushes = <<>>

C17_Witness ==
    /\ Submitted
    /\ FailureReached(last.board)
    /\ Len(last.board) > 1
    /\ last.resp.status = "sms_required"

Evaluated == last.op = "evaluate"

\* The distance from the respondent to the site, in 1/1000 mile.
LastDistance ==
    haversine_distance(last.coords.latitude, last.coords.longitude,
                       KESSLER_COORDS.latitude, KESSLER_COORDS.longitude)

\* The five answers the study requires to be "Yes".
RequiredYes == <<"tbi_year", "memory_issues", "english_fluent", "can_exercise", "can_mri">>

SatisfiesEveryRule ==
    /\ \A i \in DOMAIN RequiredYes : Get(LastData, RequiredYes[i], None) = Yes
    /\ LastDistance <= DISTANCE_THRESHOLD_MILES * 1000

\* C18: a respondent whose five required answers are "Yes" after
\* normalization and who lives within the distance threshold is qualified
\* with no disqualification reason, whatever the handedness.
C18_AllRulesSatisfiedQualifies ==
    (Evaluated /\ SatisfiesEveryRule) =>
        /\ last.verdict.qualified
        /\ last.verdict.reasons = <<>>

C18_Witness ==
    /\ Evaluated /\ SatisfiesEveryRule
    /\ Get(LastData, "handedness", None) \notin {LeftHanded, RightHanded}
    /\ last.verdict.qualified

EvaluatedRules == last.op = "evaluate_rules"

\* The rules of the evaluation in `last` in the order they are declared,
\* each with its message and whether the answers fail it: for the form
\* evaluation the six tests main.py 523-530 lists, for a rule list its rules.
DeclaredRules ==
    IF Evaluated
    THEN <<[message |-> DistanceReason,
            failed |-> LastDistance > DISTANCE_THRESHOLD_MILES * 1000],
           [message |-> "you have not experienced a TBI at least one year ago",
            failed |-> Get(LastData, "tbi_year", None) # Yes],
           [message |-> "you do not have persistent memory problems",
            failed |-> Get(LastData, "memory_issues", None) # Yes],
           [message |-> "you are not fluent in English",
            failed |-> Get(LastData, "english_fluent", None) # Yes],
           [message |-> "you are not willing or able to exercise",
            failed |-> Get(LastData, "can_exercise", None) # Yes],
           [message |-> "you are not able to undergo an MRI",
            failed |-> Get(LastData, "can_mri", None) # Yes]>>
    ELSE [i \in DOMAIN last.rules |->
             [message |-> last.rules[i].disqual_message,
              failed |-> RuleFails(last.rules[i], last.form,
                                   [age |-> last.age, coords |-> last.coords])]]

\* The rules that failed and carry the message.
FailedWith(message) ==
    {i \in DOMAIN DeclaredRules : DeclaredRules[i].failed /\ DeclaredRules[i].message = message}

\* The first of them in declaration order.
FirstFailure(message) ==
    CHOOSE i \in FailedWith(message) : \A j \in FailedWith(message) : i <= j

NoDuplicates(seq) == \A i, j \in DOMAIN seq : seq[i] = seq[j] => i = j

\* C19: the reasons of a verdict hold no string twice, hold the message of
\* every failed rule and of no other, and list them in the order in which
\* the rules that first failed with them are declared.
C19_ReasonsDistinctInDeclarationOrder ==
    (Evaluated \/ EvaluatedRules) =>
        LET reasons == last.verdict.reasons
        IN  /\ NoDuplicates(reasons)
            /\ \A i \in DOMAIN reasons : FailedWith(reasons[i]) # {}
            /\ \A k \in DOMAIN DeclaredRules :
                   DeclaredRules[k].failed => InSeq(DeclaredRules[k].message, reasons)
            /\ \A i, j \in DOMAIN reasons :
                   i < j => FirstFailure(reasons[i]) < FirstFailure(reasons[j])

C19_Witness ==
    /\ Evaluated
    /\ Len(last.verdict.reasons) >= 3
    /\ last.verdict.reasons[1] = DistanceReason
    /\ last.verdict.reasons[Len(last.verdict.reasons)] = "you are not able to undergo an MRI"

LastFacts == [age |-> last.age, coords |-> last.coords]

\* The rule list without its k-th rule.
Without(rules, k) == SubSeq(rules, 1, k - 1) \o SubSeq(rules, k + 1, Len(rules))

\* The k-th rule of the evaluation in `last` is conditional and its
\* controlling field does not hold the required value: it holds another
\* value, is empty, or is missing from the answers.
ConditionUnmet(k) ==
    /\ "depends_on" \in DOMAIN last.rules[k]
    /\ \/ last.rules[k].depends_on.value_of \notin DOMAIN last.form
       \/ last.form[last.rules[k].depends_on.value_of] # last.rules[k].depends_on.is

\* C20: a conditional rule whose controlling field does not hold the
\* required value, or is empty or missing, adds no reason and does not
\* change the verdict, whatever its own field holds: the verdict is that of
\* the rule list without the rule.
C20_UnmetConditionNeverDisqualifies ==
    EvaluatedRules =>
        \A k \in DOMAIN last.rules :
            ConditionUnmet(k) =>
                /\ ~InSeq(last.rules[k].disqual_message, last.verdict.reasons)
                /\ last.verdict = evaluate(Without(last.rules, k), last.form, LastFacts)

C20_Witness ==
    /\ EvaluatedRules
    /\ last.rules = ConditionalRules
    /\ "ckd_gfr" \notin DOMAIN last.form
    /\ last.form["gfr_less_45"] = No
    /\ last.form["kidney_transplant_6months"] = No
    /\ last.age = 30 /\ last.coords = CONCORD_COORDS
    /\ last.verdict.qualified
    /\ last.verdict.reasons = <<>>

\* The k-th rule of the evaluation in `last` declares a skip value and the
\* rule's own field holds it.
SkipValueGiven(k) ==
    /\ "depends_on" \in DOMAIN last.rules[k]
    /\ "skip_value" \in DOMAIN last.rules[k].depends_on
    /\ last.rules[k].field \in DOMAIN last.form
    /\ last.form[last.rules[k].field] = last.rules[k].depends_on.skip_value

\* C21: a conditional rule whose own field holds the rule's skip value adds
\* no reason and does not change the verdict, also when the controlling
\* field holds the required value: the verdict is that of the rule list
\* without the rule.
C21_SkipValueNeverDisqualifies ==
    EvaluatedRules =>
        \A k \in DOMAIN last.rules :
            SkipValueGiven(k) =>
                /\ ~InSeq(last.rules[k].disqual_message, last.verdict.reasons)
                /\ last.verdict = evaluate(Without(last.rules, k), last.form, LastFacts)

C21_Witness ==
    /\ EvaluatedRules
    /\ last.rules = QUALIFICATION_RULES
    /\ "ckd_gfr" \in DOMAIN last.form
    /\ last.form["ckd_gfr"] = Yes
    /\ last.form["kidney_transplant_6months"] = NotApplicable
    /\ last.form["gfr_less_45"] = Yes
    /\ last.form["previous_bupropion"] = No
    /\ last.form["liver_disease"] = No
    /\ last.age = 30 /\ last.coords = CONCORD_COORDS
    /\ last.verdict.qualified
    /\ last.verdict.reasons = <<>>

\* The respondent of the evaluation in `last` lives farther from the site
\* than the threshold.
BeyondThreshold == LastDistance > DISTANCE_THRESHOLD_MILES * 1000

\* C22: with coordinates available the distance rule is satisfied exactly
\* when the distance is at most the threshold, a distance equal to the
\* threshold included: the distance message is among the reasons, the tag
\* "Too far" is among the tags, and the verdict is not qualified for that
\* rule, exactly when the distance exceeds the threshold.
C22_DistanceRuleAtMostThreshold ==
    Evaluated =>
        /\ InSeq(DistanceReason, last.verdict.reasons) <=> BeyondThreshold
        /\ InSeq("Too far", last.verdict.tags) <=> BeyondThreshold
        /\ last.verdict.qualified <=>
               /\ ~BeyondThreshold
               /\ \A i \in DOMAIN RequiredYes : Get(LastData, RequiredYes[i], None) = Yes

C22_Witness ==
    /\ Evaluated
    /\ last.coords = AtThreshold
    /\ LastDistance = DISTANCE_THRESHOLD_MILES * 1000
    /\ last.verdict.qualified
    /\ last.verdict.reasons = <<>>
    /\ ~InSeq("Too far", last.verdict.tags)

AgeDerived == last.op = "calculate_age"

\* The date of birth of the derivation in `last`, as strptime reads it.
LastBirth == strptime(last.form["dob"])

\* (y1, m1, d1) <= (y2, m2, d2) in the order of the calendar.
NotAfter(y1, m1, d1, y2, m2, d2) ==
    \/ y1 < y2
    \/ y1 = y2 /\ m1 < m2
    \/ y1 = y2 /\ m1 = m2 /\ d1 <= d2

\* The number of anniversaries of the birth that have come by today.
Anniversaries ==
    Cardinality({y \in (LastBirth.year + 1)..today.year :
                    NotAfter(y, LastBirth.month, LastBirth.day,
                             today.year, today.month, today.day)})

\* C23: the age is counted to the day: it is the current year minus the
\* birth year, less one exactly when today's (month, day) comes before the
\* birth (month, day), which is the number of birthdays reached; a date of
\* birth exactly 18 years before today meets the minimum and a date of birth
\* one day later does not.
C23_AgeIsDayPrecise ==
    (AgeDerived /\ LastBirth # NoDate) =>
        /\ last.resp.age = Anniversaries
        /\ last.resp.age = today.year - LastBirth.year
                           - (IF NotAfter(today.year, today.month, today.day,
                                          today.year, LastBirth.month, LastBirth.day)
                                 /\ <<today.month, today.day>>
                                        # <<LastBirth.month, LastBirth.day>>
                              THEN 1 ELSE 0)
        /\ last.resp.raised <=> last.resp.age < MIN_AGE
        /\ (LastBirth = [today EXCEPT !.year = today.year - MIN_AGE])
               => (~last.resp.raised /\ last.resp.age = MIN_AGE)
        /\ (NotAfter(today.year - MIN_AGE, today.month, today.day,
                     LastBirth.year, LastBirth.month, LastBirth.day)
            /\ LastBirth # [today EXCEPT !.year = today.year - MIN_AGE])
               => last.resp.raised

\* A date of birth exactly 18 years before today is accepted with age 18.
C23_Witness ==
    /\ AgeDerived
    /\ today = [year |-> 2026, month |-> 10, day |-> 29]
    /\ LastBirth = [year |-> 2008, month |-> 10, day |-> 29]
    /\ ~last.resp.raised
    /\ last.resp.age = 18

UnderAgeReason == "you are under 18 years old"

\* The submission carried a date of birth that parses and gives an age
\* under the minimum, and is well formed otherwise.
UnderAge ==
    /\ Submitted
    /\ email_regex_match(Get(LastData, "email", <<>>))
    /\ is_us_number(Get(LastData, "phone", <<>>))
    /\ strptime(Get(LastData, "dob", <<>>)) # NoDate
    /\ calculate_age(Get(LastData, "dob", <<>>), today).age < MIN_AGE
    /\ Truthy(Get(LastData, "city_state", <<>>))

\* C24: a submission whose date of birth parses and gives an age under the
\* minimum is not rejected as malformed: it is evaluated, the verdict is not
\* qualified and lists "you are under 18 years old", and the outcome follows
\* the consent answer.
C24_UnderAgeIsEvaluated ==
    UnderAge =>
        /\ last.verdict.evaluated
        /\ ~last.verdict.qualified
        /\ InSeq(UnderAgeReason, last.verdict.reasons)
        /\ last.resp.status = IF Get(LastData, "future_study_consent", None) = IConfirm
                              THEN "sms_required" ELSE "disqualified_no_capture"

\* The verdict of the evaluation in `last` had the respondent answered the
\* handedness question with h.
VerdictWithHand(h) ==
    Evaluate(FormData([last.form EXCEPT !["handedness"] = h], NoIp),
             is_within_distance(last.coords.latitude, last.coords.longitude))

\* C25: the tag "Left-handed" is among the tags exactly when the normalized
\* handedness is "Left-handed", and the handedness answer changes neither
\* the qualified flag nor the reasons.
C25_HandednessOnlyTags ==
    Evaluated =>
        /\ InSeq("Left-handed", last.verdict.tags)
               <=> Get(LastData, "handedness", None) = LeftHanded
        /\ \A h \in EvalHands \cup {<<>>} :
               /\ VerdictWithHand(h).qualified = last.verdict.qualified
               /\ VerdictWithHand(h).reasons = last.verdict.reasons

C25_Witness ==
    /\ Evaluated
    /\ Get(LastData, "handedness", None) = LeftHanded
    /\ last.coords = Philadelphia
    /\ InSeq("Left-handed", last.verdict.tags)
    /\ InSeq("Too far", last.verdict.tags)
    /\ ~last.verdict.qualified
    /\ last.verdict.reasons = <<DistanceReason, "you are not able to undergo an MRI">>
    /\ VerdictWithHand(<<"b", "o", "t", "h">>).tags = <<"Too far">>

\* "X", "X, and Y", "X, Y, and Z": the items separated by commas, with "and"
\* before the last.
RECURSIVE ListedWithAnd(_)
ListedWithAnd(items) ==
    IF Len(items) = 1 THEN items[1]
    ELSE IF Len(items) = 2 THEN items[1] \o ", and " \o items[2]
    ELSE items[1] \o ", " \o ListedWithAnd(Tail(items))

DisqualifiedFinal == Submitted /\ last.resp.status = "disqualified_no_capture"

\* C26: the message of a final disqualification lists every reason of the
\* verdict once, in the verdict's order, separated by commas with "and"
\* before the last; a single reason stands alone.
C26_MessageListsReasonsInOrder ==
    DisqualifiedFinal =>
        /\ last.verdict.reasons # <<>>
        /\ NoDuplicates(last.verdict.reasons)
        /\ last.resp.message =
               "Thank you for your interest. Unfortunately, based on your answers, you do not meet the current study criteria because "
               \o ListedWithAnd(last.verdict.reasons) \o ". We appreciate your time."

C26_Witness ==
    /\ DisqualifiedFinal
    /\ Len(last.verdict.reasons) = 3
    /\ last.resp.message = "Thank you for your interest. Unfortunately, based on your answers, you do not meet the current study criteria because you are located outside the eligible distance from our research site, you have not experienced a TBI at least one year ago, and you are not able to undergo an MRI. We appreciate your time."

Normalized == last.op = "normalize_fields"

\* The fields with a third option beside yes and no.
TernaryFields == {"kidney_transplant_6months"}

\* The value the normalizer is to give for a field, when `text` is what is
\* matched of the raw value: the canonical word of the field's family for the
\* variants the family knows, the raw value otherwise.
CanonicalOf(key, text, value) ==
    IF key \in YesNoFields
    THEN IF text \in {<<"y", "e", "s">>, <<"y">>} THEN Yes
         ELSE IF text \in {<<"n", "o">>, <<"n">>} THEN No
         ELSE value
    ELSE IF key = "future_study_consent"
    THEN IF text = <<"y", "e", "s">> THEN IConfirm
         ELSE IF text = <<"n", "o">> THEN IDoNotConfirm
         ELSE value
    ELSE IF key = "handedness"
    THEN IF Contains(text, <<"l", "e", "f", "t">>) THEN LeftHanded
         ELSE IF Contains(text, <<"r", "i", "g", "h", "t">>) THEN RightHanded
         ELSE value
    ELSE value

\* C27 as stated: normalize returns a mapping with the keys of its input and
\* leaves the input as it was; a yes/no field holding a case variant of
\* "yes"/"y" or "no"/"n" becomes "Yes" or "No", the consent field holding
\* "yes" or "no" becomes "I, confirm" or "I, do not confirm", a handedness
\* containing "left" or "right" becomes "Left-handed" or "Right-handed", and
\* every other value, and every field of no family, is returned unchanged.
C27_NormalizeByCaseOnly ==
    Normalized =>
        /\ DOMAIN last.resp = DOMAIN last.given
        /\ last.form = last.given
        /\ \A key \in DOMAIN last.given \ TernaryFields :
               last.resp[key] = CanonicalOf(key, Lower(last.given[key]), last.given[key])

\* C27, amended: the same, the variants being matched on the value without
\* its leading and trailing whitespace and without regard to case.
C27_NormalizeByCaseAndTrim ==
    Normalized =>
        /\ DOMAIN last.resp = DOMAIN last.given
        /\ last.form = last.given
        /\ \A key \in DOMAIN last.given \ TernaryFields :
               last.resp[key] = CanonicalOf(key, Lower(Strip(last.given[key])),
                                            last.given[key])

C27_Witness ==
    /\ Normalized
    /\ "name" \in DOMAIN last.given
    /\ last.given["tbi_year"] = <<" ", "y", "e", "s", " ">>
    /\ last.given["handedness"] = <<"L", "E", "F", "T", "Y">>
    /\ last.given["future_study_consent"] = <<"N", "O", " ">>
    /\ last.resp["tbi_year"] = Yes
    /\ last.resp["handedness"] = LeftHanded
    /\ last.resp["future_study_consent"] = IDoNotConfirm
    /\ last.resp["name"] = <<"y", "e", "s">>

\* The variants of the third option, in lower case.
NotApplicableVariants ==
    {<<"n", "o", "t", " ", "a", "p", "p", "l", "i", "c", "a", "b", "l", "e">>,
     <<"n", "/", "a">>}

\* C28: for a field with a third option, normalize maps every case variant
\* of "not applicable" and of "n/a" to "Not Applicable".
C28_NotApplicableIsCanonicalized ==
    Normalized =>
        \A key \in DOMAIN last.given \cap TernaryFields :
            Lower(last.given[key]) \in NotApplicableVariants
                => last.resp[key] = NotApplicable

\* The verdict the handler gives the raw answers `raw` at the location of
\* the evaluation in `last`.
VerdictOf(raw) ==
    Evaluate(FormData(raw, NoIp),
             is_within_distance(last.coords.latitude, last.coords.longitude))

\* The raw answers of scenario B of the specification but for the answer on
\* exercise: "yes", "Yes", "Y" and "left" as typed.
ScenarioAnswers(exercise) ==
    /\ last.form = [BaseForm EXCEPT !["can_exercise"] = exercise]
    /\ last.form["tbi_year"] = <<"y", "e", "s">>
    /\ last.form["english_fluent"] = <<"Y">>
    /\ last.form["handedness"] = <<"l", "e", "f", "t">>
    /\ ~BeyondThreshold

\* The raw answers `form` with the answers on exercise, on the injury and on
\* handedness typed in other ways.
Respellings(form) ==
    {[form EXCEPT !["can_exercise"] = d, !["tbi_year"] = a, !["handedness"] = h] :
        d \in {<<"Y", "e", "s">>, <<"y">>, <<"N", "o">>, <<" ", "n", " ">>, <<>>},
        a \in {<<"y", "e", "s">>, <<" ", "Y", " ">>, <<"n", "o">>, <<>>},
        h \in {<<"l", "e", "f", "t">>, LeftHanded, <<"L", "E", "F", "T">>,
               <<"r", "i", "g", "h", "t">>, <<"b", "o", "t", "h">>}}

\* C29: the rules are evaluated on the normalized answers: raw answers that
\* normalize to the same mapping get the same verdict; the raw answers
\* "yes", "Y" and "left" with every rule satisfied give a qualified verdict
\* with no reason and the one tag "Left-handed", and the same answers with
\* "No" on exercise give a verdict that is not qualified, with the reason
\* "you are not willing or able to exercise".
C29_RulesSeeNormalizedAnswers ==
    Evaluated =>
        /\ last.verdict = VerdictOf(last.form)
        /\ \A other \in Respellings(last.form) :
               normalize_fields(other) = normalize_fields(last.form)
                   => VerdictOf(other) = last.verdict
        /\ ScenarioAnswers(<<"Y", "e", "s">>) =>
               /\ last.verdict.qualified
               /\ last.verdict.reasons = <<>>
               /\ last.verdict.tags = <<"Left-handed">>
        /\ ScenarioAnswers(<<"N", "o">>) =>
               /\ ~last.verdict.qualified
               /\ last.verdict.reasons = <<"you are not willing or able to exercise">>
               /\ last.verdict.tags = <<"Left-handed">>

C29_Witness ==
    /\ Evaluated
    /\ ScenarioAnswers(<<"N", "o">>)
    /\ last.coords = Newark
    /\ ~last.verdict.qualified
    /\ InSeq("you are not willing or able to exercise", last.verdict.reasons)
    /\ \E other \in Respellings(last.form) :
           /\ other # last.form
           /\ normalize_fields(other) = normalize_fields(last.form)

\* The outcome of the submission in `last` had it come from the address
\* ip_address and had the address lookup answered ip_data, every other
\* collaborator answering as it did.
OutcomeFrom(ip_address, ip_data) ==
    process_qualification_submission_from_form(
        last.form, ip_address, [last.env EXCEPT !.ip_data = ip_data], today, before)

\* What is kept of a pending submission for the recorder, but for the notes
\* and the client address.
Bucket(store, id) ==
    IF id \in DOMAIN store
    THEN [group |-> store[id].group, qualified |-> store[id].qualified,
          tags |-> store[id].tags, push_to_monday_flag |-> store[id].push_to_monday_flag,
          code |-> store[id].code]
    ELSE <<>>

\* C30: the client address and the answer of the address lookup do not
\* affect the verdict or the outcome: the same answers with the same
\* duplicate, geocoder and SMS results get the same verdict (qualified,
\* reasons, tags), the same response and the same group, whatever the
\* address and whatever the lookup returns.
C30_AddressNeverAffectsOutcome ==
    (Submitted /\ "env" \in DOMAIN last) =>
        \A ip_address \in IpAddresses, ip_data \in IpAnswers :
            /\ OutcomeFrom(ip_address, ip_data).verdict = last.verdict
            /\ OutcomeFrom(ip_address, ip_data).resp = last.resp
            /\ Bucket(OutcomeFrom(ip_address, ip_data).sessions, last.env.uuid)
                   = Bucket(sessions, last.env.uuid)

C30_Witness ==
    /\ Submitted /\ "env" \in DOMAIN last
    /\ last.ip = Ip1
    /\ last.env.ip_data = IpData1
    /\ last.resp.status = "sms_required"
    /\ last.verdict.qualified
    /\ sessions[last.id].ip_info_text # ""
    /\ OutcomeFrom(NoIp, <<>>).sessions[last.id].ip_info_text = ""
    /\ OutcomeFrom(NoIp, <<>>).sessions # sessions

Pushed == last.op = "push_to_monday"

\* The tags of the call in `last` that belong to the vocabulary it was
\* given, in their order.
AllowedTags ==
    SelectSeq(last.pushes[1].tags,
              LAMBDA t : \E i \in DOMAIN last.allowed : last.allowed[i] = t)

\* C31: the labels the recorder sends to the board are exactly the tags
\* that belong to the study's allowed vocabulary, in their original order;
\* a tag outside the vocabulary is not sent and does not make the call fail
\* (the call fails for null keywords only, whatever the tags).
C31_AllowedTagsAreSent ==
    Pushed =>
        /\ last.pushes[1].raised <=> KeywordsRaise(last.pushes[1].data)
        /\ ~last.pushes[1].raised =>
               /\ last.pushes[1].labels = AllowedTags
               /\ AllowedTags # <<>> => last.pushes[1].dropdown

VerificationRequired == Submitted /\ last.resp.status = "sms_required"

\* The codes the request in `last` passed to send_verification_sms.
CodesSent ==
    {last.calls[i].arg : i \in {k \in DOMAIN last.calls :
                                    last.calls[k].fn = "send_verification_sms"}}

\* C32: whenever a submission is answered with sms_required and a submission
\* id, that id is in the session store, it was not there before the request,
\* and the code stored under it is the one code the request passed to
\* send_verification_sms.
C32_PendingSessionHoldsSentCode ==
    VerificationRequired =>
        /\ last.resp.submission_id \in DOMAIN sessions
        /\ last.resp.submission_id \notin DOMAIN before
        /\ CodesSent = {sessions[last.resp.submission_id].code}

C32_Witness ==
    /\ VerificationRequired
    /\ before # EmptyStore
    /\ sessions[last.resp.submission_id].code = Code9999
    /\ CodesSent = {Code9999}
    /\ \E id \in DOMAIN before : before[id].code = Code1000

\* C33: in every reachable state, every session the form handler created is
\* filed under the qualified group exactly when its qualified flag is true,
\* has its recording flag set, and belongs to a respondent who is qualified
\* or consented to future contact.
C33_SessionsAreQualifiedOrConsented ==
    \A id \in DOMAIN sessions :
        /\ sessions[id].group = QUALIFIED_GROUP_ID <=> sessions[id].qualified
        /\ sessions[id].group \in {QUALIFIED_GROUP_ID, DISQUALIFIED_GROUP_ID}
        /\ sessions[id].push_to_monday_flag
        /\ \/ sessions[id].qualified
           \/ Get(sessions[id].data, "future_study_consent", None) = IConfirm

C33_Witness ==
    \E a, b \in DOMAIN sessions :
        /\ sessions[a].qualified
        /\ sessions[a].group = QUALIFIED_GROUP_ID
        /\ Get(sessions[a].data, "future_study_consent", None) = IDoNotConfirm
        /\ ~sessions[b].qualified
        /\ sessions[b].group = DISQUALIFIED_GROUP_ID
        /\ sessions[b].push_to_monday_flag

\* The message of either path for a disqualified respondent with no reason
\* to name (main.py 559, 351).
ReasonlessFallbacks ==
    {DisqualifiedMessage(<<>>), ChatFinalMessage(FALSE, <<>>)}

\* C34: whenever the form orchestrator or the chatbot has evaluated a
\* respondent, the respondent is qualified exactly when the list of reasons
\* is empty; a final disqualification therefore names at least one reason and
\* the message without reasons is never the answer.
C34_QualifiedIffNoReasons ==
    last.verdict.evaluated =>
        /\ last.verdict.qualified <=> last.verdict.reasons = <<>>
        /\ DisqualifiedFinal =>
               /\ Len(last.verdict.reasons) >= 1
               /\ last.resp.message \notin ReasonlessFallbacks
        /\ last.op = "chat" => last.resp \notin ReasonlessFallbacks

C34_Witness ==
    /\ last.op = "chat"
    /\ last.verdict.evaluated
    /\ ~last.verdict.qualified
    /\ Len(last.verdict.reasons) >= 1
    /\ last.resp = ChatFinalMessage(FALSE, last.verdict.reasons)
    /\ last.id \notin DOMAIN sessions

\* C35: a form submission leaves every session that was in the store before
\* it exactly as it was (same code, data, bucket, verdict, tags), and the
\* only entry it may add is one under an id that was not in the store.
C35_SubmissionKeepsOtherSessions ==
    Submitted =>
        /\ \A id \in DOMAIN before :
               id \in DOMAIN sessions /\ sessions[id] = before[id]
        /\ \A id \in DOMAIN sessions \ DOMAIN before :
               /\ id = last.id
               /\ last.resp.status = "sms_required"
               /\ ~IsChatSession(id, sessions)

C35_Witness ==
    /\ Submitted
    /\ last.resp.status = "sms_required"
    /\ last.id \in DOMAIN sessions \ DOMAIN before
    /\ \E a \in DOMAIN before :
           /\ IsChatSession(a, before)
           /\ before[a].step > 0
           /\ sessions[a] = before[a]

\* A verification request that carries the code of a session whose code an
\* earlier request already carried, the session still being stored.
RepeatedMatch ==
    /\ CodeMatched
    /\ MatchedEarlier(last.id) >= 1

\* C36: a verification request removes a session only when its code matched
\* and the recording the session asks for has returned; a request whose code
\* matched and that does not remove the session leaves the whole store as it
\* was, code included; and a later request with the same code is a match
\* again and calls the recorder again.
C36_RaiseKeepsSessionForRetry ==
    /\ (Verified /\ last.id \in DOMAIN before /\ last.id \notin DOMAIN sessions) =>
           /\ last.matched
           /\ before[last.id]["push_to_monday_flag"] => Len(RanPushes) = 1
    /\ (CodeMatched /\ last.id \in DOMAIN sessions) =>
           /\ sessions = before
           /\ sessions[last.id]["code"] = last.code
    /\ RepeatedMatch =>
           /\ last.matched
           /\ before[last.id]["push_to_monday_flag"] => Len(last.pushes) >= 1

\* The part of C36 that is about the store.
C36_StoreAfterRaise ==
    /\ (Verified /\ last.id \in DOMAIN before /\ last.id \notin DOMAIN sessions) =>
           /\ last.matched
           /\ before[last.id]["push_to_monday_flag"] => Len(RanPushes) = 1
    /\ (CodeMatched /\ last.id \in DOMAIN sessions) =>
           /\ sessions = before
           /\ sessions[last.id]["code"] = last.code
    /\ RepeatedMatch => last.matched /\ last.resp = UnhandledNameError

\* The chatbot message in `last` moved its session from a later step back to
\* the phone question (main.py 280-284, 367-371, 417-421).
ResetToPhone ==
    /\ last.op = "chat"
    /\ IsChatSession(last.id, before)
    /\ IsChatSession(last.id, sessions)
    /\ before[last.id].step > QuestionIndex("phone")
    /\ sessions[last.id].step = QuestionIndex("phone")

\* C37: the step of every chatbot session is -1 or an index from 0 to the
\* number of questions; a session is verified only at the step after the
\* last question; and a message that moves a session back to the phone
\* question leaves it unverified with an empty phone number.
C37_ChatStepAndVerified ==
    /\ \A id \in DOMAIN sessions :
           IsChatSession(id, sessions) =>
               /\ sessions[id].step \in -1..Len(questions)
               /\ sessions[id].verified => sessions[id].step = Len(questions)
    /\ ResetToPhone =>
           /\ ~sessions[last.id].verified
           /\ "phone" \in DOMAIN sessions[last.id].data
           /\ sessions[last.id].data["phone"] = <<>>

C37_Witness ==
    /\ ResetToPhone
    /\ before[last.id].verified
    /\ ~sessions[last.id].verified
    /\ sessions[last.id].data["phone"] = <<>>
    /\ last.resp = MsgNotTheCode

\* The chatbot message in `last` gave session id an email address that the
\* duplicate check knows.
DuplicateDetected(id) ==
    /\ last.op = "chat"
    /\ last.id = id
    /\ last.dup = "hit"

\* Where main.py 394 leaves a session: stored at the step after the last
\* question and unverified.
Parked(id) ==
    /\ IsChatSession(id, sessions)
    /\ sessions[id].step = Len(questions)
    /\ ~sessions[id].verified

\* The request in `last`, if it is for session id, sends no code, calls no
\* recorder and leaves step and verified of the session as they were.
Quiet(id) ==
    (last.id = id /\ last.op \in {"chat", "verify"}) =>
        /\ ~Called(last.calls, "send_verification_sms")
        /\ last.pushes = <<>>
        /\ IsChatSession(id, before)
        /\ sessions[id].step = before[id].step
        /\ sessions[id].verified = before[id].verified

\* C38: the message that finds the email of a chatbot session on the board
\* parks the session, and every step from a parked session leaves it parked:
\* no later input sends it a code or records it, and every later input is
\* answered with step and verified unchanged.
C38_DuplicateSessionIsParked ==
    [][\A id \in 1..MaxIds :
           /\ DuplicateDetected(id)' => Parked(id)'
           /\ Parked(id) => (Parked(id)' /\ Quiet(id)')]_vars

C38_Witness ==
    /\ last.op = "chat"
    /\ last.dup = "not asked"
    /\ IsChatSession(last.id, before)
    /\ before[last.id].step = Len(questions)
    /\ ~before[last.id].verified
    /\ last.resp = MsgPhoneMissing
    /\ Parked(last.id)

\* The chatbot message in `last`, run on the store it found, with the
\* geocoder answering coords.
ChatOutcomeAt(coords) ==
    handle_input(last.id, last.code, last.ip,
                 [DefaultEnv(UnknownId) EXCEPT !.coords = coords], today, before)

\* The form orchestrator on the answers and the address that chat session
\* holds, with the same geocoder answer.
FormOutcomeAt(coords) ==
    process_qualification_submission_from_form(
        before[last.id].data, before[last.id].ip,
        [DefaultEnv(uuids + 1) EXCEPT !.coords = coords], today, before)

\* C39: when a chatbot session is closed with its code, the form
\* orchestrator run on the session's answers with the same geocoder answer
\* gives the same verdict (qualified, reasons, tags) and the same group, and
\* the form keeps a submission for recording exactly when the chatbot calls
\* the recorder: when the respondent is qualified or consented with
\* "I, confirm".
C39_ChatAndFormAgree ==
    (last.op = "chat" /\ last.verdict.evaluated) =>
        /\ \E coords \in ChatGeoAnswers : ChatOutcomeAt(coords).verdict = last.verdict
        /\ \A coords \in ChatGeoAnswers :
               \E chat \in {ChatOutcomeAt(coords)}, form \in {FormOutcomeAt(coords)} :
                   chat.verdict.evaluated =>
                       /\ form.verdict = chat.verdict
                       /\ chat.pushes # <<>> <=> form.resp.status = "sms_required"
                       /\ chat.pushes # <<>> <=>
                              \/ chat.verdict.qualified
                              \/ Get(normalize_fields(before[last.id].data),
                                     "future_study_consent", None) = IConfirm
                       /\ chat.pushes # <<>> =>
                              /\ form.sessions[uuids + 1].group = chat.pushes[1].group_id
                              /\ form.sessions[uuids + 1].tags = chat.pushes[1].tags
                              /\ form.sessions[uuids + 1].qualified = chat.pushes[1].qualified
                              /\ form.sessions[uuids + 1].push_to_monday_flag

C39_Witness ==
    /\ last.op = "chat"
    /\ last.verdict.evaluated
    /\ ~last.verdict.qualified
    /\ Len(last.verdict.reasons) = 2
    /\ last.verdict.tags = <<"Too far", "Left-handed">>
    /\ last.pushes # <<>>
    /\ last.pushes[1].group_id = DISQUALIFIED_GROUP_ID

\* C40: normalizing is idempotent: normalize_fields applied to a mapping it
\* returned gives that mapping again, with the same keys.
C40_NormalizeIsIdempotent ==
    Normalized =>
        /\ DOMAIN normalize_fields(last.resp) = DOMAIN last.given
        /\ normalize_fields(last.resp) = last.resp

C40_Witness ==
    /\ Normalized
    /\ "handedness" \in DOMAIN last.given
    /\ last.given.tbi_year = <<" ", "n", " ">>
    /\ last.given.handedness = <<"r", "i", "g", "h", "t", ",", " ", "l", "e", "f", "t">>
    /\ last.given.future_study_consent = <<"Y", "e", "s">>
    /\ last.resp.tbi_year = No
    /\ last.resp.handedness = LeftHanded
    /\ last.resp.future_study_consent = IConfirm
    /\ normalize_fields(last.resp) = last.resp

=============================================================================
